---- MODULE Spec2Model ----
(***************************************************************************)
(* A model of the toki front end: the indentation-sensitive Lexer          *)
(* (src/src/lexer.rs), the recursive-descent parser (src/src/parser.rs)    *)
(* and the textual rendering of the AST (src/src/ast.rs).                  *)
(*                                                                         *)
(* Source text is a sequence of one-character strings (ASCII only, so one  *)
(* character is one byte).  A token is a record [t, v, n]: its variant,    *)
(* the text it borrows from the source and, for IntLiteral, its value.     *)
(***************************************************************************)
EXTENDS Integers, Sequences, FiniteSets, TLC

VARIABLES
    src,        \* the source text handed to Lexer::new / the test token list
    lexer,      \* the Lexer struct: rest, byte, just_after_newline, indent_level
    emitted,    \* what the calls of Lexer::next() returned so far, in order
    phase,      \* position of the driver in the pipeline
    stream,     \* the items the parser pulls from its Peekable token iterator
    result,     \* what parse / parse_expr returned
    text,       \* Display of the returned AstBlock
    stream2,    \* the items lexed from the rendered text
    result2,    \* what parse returned on the rendered text
    reported    \* what report returned for the parse result

vars == <<src, lexer, emitted, phase, stream, result, text, stream2, result2, reported>>

----------------------------------------------------------------------------
(* Bounds of the model                                                     *)

MaxPieces == 6

MaxCalls == 9

MaxOps == 3

MaxFrags == 3

----------------------------------------------------------------------------
(* Characters                                                              *)

Alphabetic ==
    {"a","b","c","d","e","f","g","h","i","j","k","l","m","n","o","p","q","r",
     "s","t","u","v","w","x","y","z"}

Numeric == {"0","1","2","3","4","5","6","7","8","9"}

DigitValue(c) ==
    CASE c = "0" -> 0 [] c = "1" -> 1 [] c = "2" -> 2 [] c = "3" -> 3
      [] c = "4" -> 4 [] c = "5" -> 5 [] c = "6" -> 6 [] c = "7" -> 7
      [] c = "8" -> 8 [] c = "9" -> 9

DigitChar(d) ==
    CASE d = 0 -> "0" [] d = 1 -> "1" [] d = 2 -> "2" [] d = 3 -> "3"
      [] d = 4 -> "4" [] d = 5 -> "5" [] d = 6 -> "6" [] d = 7 -> "7"
      [] d = 8 -> "8" [] d = 9 -> "9"

I32Max == 2147483647

\* s[from..] as Rust slices it (from is a 0-based byte offset)
Drop(s, from) == SubSeq(s, from + 1, Len(s))

Take(s, n) == SubSeq(s, 1, n)

\* str::find(|c| cs.contains(c)): 0-based index of the first character in
\* cs, or Len(s) when there is none (the unwrap_or_else(|| len) of callers)
FindIn(s, cs) ==
    IF \E i \in 1..Len(s) : s[i] \in cs
    THEN (CHOOSE i \in 1..Len(s) : s[i] \in cs /\ \A j \in 1..(i - 1) : s[j] \notin cs) - 1
    ELSE Len(s)

\* str::find(|c| !cs.contains(c)), likewise
FindNotIn(s, cs) ==
    IF \E i \in 1..Len(s) : s[i] \notin cs
    THEN (CHOOSE i \in 1..Len(s) : s[i] \notin cs /\ \A j \in 1..(i - 1) : s[j] \in cs) - 1
    ELSE Len(s)

RECURSIVE Flatten(_)
Flatten(ss) == IF ss = <<>> THEN <<>> ELSE Head(ss) \o Flatten(Tail(ss))

\* starts_with
StartsWith(s, c) == Len(s) > 0 /\ s[1] = c

----------------------------------------------------------------------------
(* Tokens                                                                  *)

Tok(t) == [t |-> t, v |-> <<>>, n |-> 0]

Ident(name) == [t |-> "Ident", v |-> name, n |-> 0]

StrLiteral(s) == [t |-> "StrLiteral", v |-> s, n |-> 0]

IntLiteral(n) == [t |-> "IntLiteral", v |-> <<>>, n |-> n]

NoTok == Tok("-")

\* what Lexer::next() returns: Some(Ok((at, tok))), Some(Err(e)), None, or
\* no return at all when an assertion aborts the process
OkItem(at, tok) == [k |-> "tok", at |-> at, tok |-> tok, err |-> "-"]

ErrItem(e, at) == [k |-> "err", at |-> at, tok |-> NoTok, err |-> e]

NoneItem == [k |-> "none", at |-> 0, tok |-> NoTok, err |-> "-"]

PanicItem == [k |-> "panic", at |-> 0, tok |-> NoTok, err |-> "-"]

get_keyword(ident) ==
    CASE ident = <<"a","n","d">> -> Tok("And")
      [] ident = <<"o","r">> -> Tok("Or")
      [] ident = <<"n","o","t">> -> Tok("Not")
      [] ident = <<"m","u","t">> -> Tok("Mut")
      [] ident = <<"r","e","t","u","r","n">> -> Tok("Return")
      [] ident = <<"i","f">> -> Tok("If")
      [] ident = <<"e","l","s","e">> -> Tok("Else")
      [] ident = <<"d","e","f">> -> Tok("Def")
      [] ident = <<"s","t","r","u","c","t">> -> Tok("Struct")
      [] OTHER -> Ident(ident)

----------------------------------------------------------------------------
(* Lexer                                                                   *)

Lexer_new(s) ==
    [rest |-> s, byte |-> 0, just_after_newline |-> FALSE, indent_level |-> 0]

Ret(L, item) == [lexer |-> L, item |-> item]

Advance(L, n) == [L EXCEPT !.byte = @ + n, !.rest = Drop(@, n)]

\* needs_dedent without its `indent_level > 0` conjunct
needs_dedent_unguarded(L, c) == L.just_after_newline /\ c # " " /\ c # "\n"

needs_dedent(L, c) ==
    L.indent_level > 0 /\ L.just_after_newline /\ c # " " /\ c # "\n"

\* the forced Dedent also consuming the character it looked at
ForcedDedent_consuming(L) ==
    Ret([Advance(L, 1) EXCEPT !.indent_level = @ - 1], OkItem(L.byte, Tok("Dedent")))

\* the forced Dedent leaving indent_level as it was
ForcedDedent_stuck(L) == Ret(L, OkItem(L.byte, Tok("Dedent")))

\* `if needs_dedent`: one Dedent at the current offset, nothing consumed
ForcedDedent(L) ==
    Ret([L EXCEPT !.indent_level = @ - 1], OkItem(L.byte, Tok("Dedent")))

\* str::parse::<i32>() of a run of digits and underscores: the value, or -1
\* where parse returns Err (an underscore, or a value above i32::MAX)
RECURSIVE ParseDigits(_, _)
ParseDigits(s, acc) ==
    IF s = <<>> THEN acc
    ELSE IF Head(s) \notin Numeric THEN -1
    ELSE IF acc > (I32Max - DigitValue(Head(s))) \div 10 THEN -1
    ELSE ParseDigits(Tail(s), acc * 10 + DigitValue(Head(s)))

ParseI32(s) == ParseDigits(s, 0)

\* Started::Spaces without the assert on the size of the jump
SpacesToken_any_jump(L, c_at, indent) ==
    IF indent < L.indent_level
    THEN Ret([Advance(L, 3) EXCEPT !.indent_level = @ - 1], OkItem(c_at, Tok("Dedent")))
    ELSE Ret([Advance(L, 3) EXCEPT !.indent_level = @ + 1], OkItem(c_at, Tok("Indent")))

\* the arm of Started::Spaces that returns a token; L has consumed c already
SpacesToken(L, c_at, indent) ==
    IF indent < L.indent_level
    THEN Ret([Advance(L, 3) EXCEPT !.indent_level = @ - 1], OkItem(c_at, Tok("Dedent")))
    ELSE IF indent - L.indent_level = 1
    THEN Ret([Advance(L, 3) EXCEPT !.indent_level = @ + 1], OkItem(c_at, Tok("Indent")))
    ELSE Ret(L, PanicItem)

NumericToken(L, c_at, c_rest) ==
    LET numeric_end_ix == FindNotIn(c_rest, Numeric \cup {"_"})
        numeric_token == Take(c_rest, numeric_end_ix)
        n == ParseI32(numeric_token)
        L2 == Advance(L, Len(numeric_token) - 1)
    IN  IF n < 0 THEN Ret(L2, PanicItem) ELSE Ret(L2, OkItem(c_at, IntLiteral(n)))

\* Started::Ident recording self.byte, the offset after the first character
IdentToken_at_byte(L, c_at, c_rest) ==
    LET ident_ed_ix ==
            FindNotIn(c_rest, {"_"} \cup Alphabetic \cup Numeric)
        ident == Take(c_rest, ident_ed_ix)
    IN  Ret(Advance(L, Len(ident) - 1), OkItem(L.byte, get_keyword(ident)))

IdentToken(L, c_at, c_rest) ==
    LET ident_ed_ix ==
            FindNotIn(c_rest, {"_"} \cup Alphabetic \cup Numeric)
        ident == Take(c_rest, ident_ed_ix)
    IN  Ret(Advance(L, Len(ident) - 1), OkItem(c_at, get_keyword(ident)))

\* Started::String reporting self.byte, the offset after the quote, for c_at
StringToken_at_byte(L, c_at, c_rest) ==
    LET tail == Drop(c_rest, 1)
        str_end_ix == FindIn(tail, {"\""})
    IN  IF str_end_ix < Len(tail)
        THEN LET full_str == Take(c_rest, str_end_ix + 2) IN
             Ret(Advance(L, Len(full_str) - 1),
                 OkItem(c_at, StrLiteral(SubSeq(full_str, 2, Len(full_str) - 1))))
        ELSE Ret(L, ErrItem("UnterminatedString", L.byte))

StringToken(L, c_at, c_rest) ==
    LET tail == Drop(c_rest, 1)
        str_end_ix == FindIn(tail, {"\""})
    IN  IF str_end_ix < Len(tail)
        THEN LET full_str == Take(c_rest, str_end_ix + 2) IN
             Ret(Advance(L, Len(full_str) - 1),
                 OkItem(c_at, StrLiteral(SubSeq(full_str, 2, Len(full_str) - 1))))
        ELSE Ret(L, ErrItem("UnterminatedString", c_at))

IfEqualElse(L, c_at, no, yes) ==
    IF StartsWith(L.rest, "=")
    THEN Ret(Advance(L, 1), OkItem(c_at, Tok(yes)))
    ELSE Ret(L, OkItem(c_at, Tok(no)))

\* Started::Minus moving byte but not rest for `->`
MinusToken_byte_only(L, c_at) ==
    IF StartsWith(L.rest, "=") THEN Ret(Advance(L, 1), OkItem(c_at, Tok("SubEq")))
    ELSE IF StartsWith(L.rest, ">")
    THEN Ret([L EXCEPT !.byte = @ + 1], OkItem(c_at, Tok("Arrow")))
    ELSE Ret(L, OkItem(c_at, Tok("Sub")))

MinusToken(L, c_at) ==
    IF StartsWith(L.rest, "=") THEN Ret(Advance(L, 1), OkItem(c_at, Tok("SubEq")))
    ELSE IF StartsWith(L.rest, ">") THEN Ret(Advance(L, 1), OkItem(c_at, Tok("Arrow")))
    ELSE Ret(L, OkItem(c_at, Tok("Sub")))

\* the number of spaces the `while c == ' ' && !just_after_newline` loop skips
SkippedSpaces(L) ==
    IF L.just_after_newline THEN 0 ELSE FindNotIn(L.rest, {" "})

\* `chars.next()?` at the end of the input, closing an open indent level
EndOfInput_closing(L) ==
    IF L.indent_level > 0
    THEN Ret([L EXCEPT !.indent_level = @ - 1], OkItem(L.byte, Tok("Dedent")))
    ELSE Ret(L, NoneItem)

\* `chars.next()?` at the end of the input: None, the lexer as it is
EndOfInput(L) == Ret(L, NoneItem)

\* consuming c, the flag never going back to false
AfterChar_keeping(L, c) ==
    [Advance(L, 1) EXCEPT !.just_after_newline = (@ \/ c = "\n")]

\* consuming c and setting just_after_newline by it
AfterChar(L, c) ==
    [Advance(L, 1) EXCEPT !.just_after_newline = (c = "\n")]

\* one call of Lexer::next(); the recursion is the `continue` of the loop
RECURSIVE next(_)
next(L) ==
    IF L.rest = <<>> THEN EndOfInput(L)
    ELSE IF needs_dedent(L, Head(L.rest))
    THEN ForcedDedent(L)
    ELSE LET L1 == Advance(L, SkippedSpaces(L)) IN
    IF L1.rest = <<>> THEN EndOfInput(L1)
    ELSE LET c == Head(L1.rest)
             c_at == L1.byte
             c_rest == L1.rest
             L2 == AfterChar(L1, c)
    IN  CASE c = "\n" -> Ret(L2, OkItem(c_at, Tok("Newline")))
          [] c = "(" -> Ret(L2, OkItem(c_at, Tok("LParen")))
          [] c = ")" -> Ret(L2, OkItem(c_at, Tok("RParen")))
          [] c = ":" -> Ret(L2, OkItem(c_at, Tok("Colon")))
          [] c = ";" -> Ret(L2, OkItem(c_at, Tok("Semicolon")))
          [] c = "," -> Ret(L2, OkItem(c_at, Tok("Comma")))
          [] c = "-" -> MinusToken(L2, c_at)
          [] c = "+" -> IfEqualElse(L2, c_at, "Add", "AddEq")
          [] c = "*" -> IfEqualElse(L2, c_at, "Mul", "MulEq")
          [] c = "/" -> IfEqualElse(L2, c_at, "Div", "DivEq")
          [] c = "!" -> IfEqualElse(L2, c_at, "Bang", "BangEq")
          [] c = "=" -> IfEqualElse(L2, c_at, "Eq", "DoubleEq")
          [] c = " " ->
                LET space_end_ix == FindNotIn(c_rest, {" "})
                    indent == space_end_ix \div 4
                IN  IF space_end_ix % 4 # 0 THEN Ret(L2, PanicItem)
                    ELSE IF indent = L2.indent_level THEN next(L2)
                    ELSE SpacesToken(L2, c_at, indent)
          [] c = "\"" -> StringToken(L2, c_at, c_rest)
          [] c \in Numeric -> NumericToken(L2, c_at, c_rest)
          [] c \in Alphabetic -> IdentToken(L2, c_at, c_rest)
          [] OTHER -> Ret(L2, ErrItem("UnknownToken", c_at))

----------------------------------------------------------------------------
(* The token iterator the parser pulls from                                *)

\* every item Lexer::next() yields before end of input; an aborting
\* assertion is the last item of the run
RECURSIVE LexFrom(_)
LexFrom(L) ==
    LET r == next(L) IN
    IF r.item.k = "none" THEN <<>>
    ELSE IF r.item.k = "panic" THEN <<r.item>>
    ELSE <<r.item>> \o LexFrom(r.lexer)

LexAll(s) == LexFrom(Lexer_new(s))

\* the test modules' token lists: vec![..].into_iter().enumerate().map(Ok)
Enumerate(toks) == [i \in 1..Len(toks) |-> OkItem(i - 1, toks[i])]

----------------------------------------------------------------------------
(* Token model: rendering, rendered length, operators and precedence       *)

RECURSIVE Decimal(_)
Decimal(n) ==
    IF n < 10 THEN <<DigitChar(n)>> ELSE Decimal(n \div 10) \o <<DigitChar(n % 10)>>

\* Display of Token
TokenText(tok) ==
    CASE tok.t = "Ident" -> tok.v
      [] tok.t = "IntLiteral" -> Decimal(tok.n)
      [] tok.t = "StrLiteral" -> <<"\"">> \o tok.v \o <<"\"">>
      [] tok.t = "LParen" -> <<"(">>
      [] tok.t = "RParen" -> <<")">>
      [] tok.t = "Colon" -> <<":">>
      [] tok.t = "Semicolon" -> <<";">>
      [] tok.t = "Comma" -> <<",">>
      [] tok.t = "Dot" -> <<".">>
      [] tok.t = "Arrow" -> <<"-", ">">>
      [] tok.t = "Add" -> <<"+">>
      [] tok.t = "AddEq" -> <<"+", "=">>
      [] tok.t = "Sub" -> <<"-">>
      [] tok.t = "SubEq" -> <<"-", "=">>
      [] tok.t = "Mul" -> <<"*">>
      [] tok.t = "MulEq" -> <<"*", "=">>
      [] tok.t = "Div" -> <<"/">>
      [] tok.t = "DivEq" -> <<"/", "=">>
      [] tok.t = "Bang" -> <<"!">>
      [] tok.t = "BangEq" -> <<"!", "=">>
      [] tok.t = "Eq" -> <<"=">>
      [] tok.t = "DoubleEq" -> <<"=", "=">>
      [] tok.t = "Not" -> <<"n", "o", "t">>
      [] tok.t = "And" -> <<"a", "n", "d">>
      [] tok.t = "Or" -> <<"o", "r">>
      [] tok.t = "Mut" -> <<"m", "u", "t">>
      [] tok.t = "If" -> <<"i", "f">>
      [] tok.t = "Else" -> <<"e", "l", "s", "e">>
      [] tok.t = "Return" -> <<"r", "e", "t", "u", "r", "n">>
      [] tok.t = "Def" -> <<"d", "e", "f">>
      [] tok.t = "Struct" -> <<"s", "t", "r", "u", "c", "t">>
      [] tok.t = "Newline" -> <<"\n">>
      [] tok.t = "Indent" -> <<" ", " ", " ", " ">>
      [] OTHER -> <<>>

src_len(tok) == Len(TokenText(tok))

\* Token::as_operator: the Operator a token stands for, "-" for None
as_operator(tok) ==
    CASE tok.t = "Add" -> "Add"
      [] tok.t = "Sub" -> "Sub"
      [] tok.t = "Mul" -> "Mul"
      [] tok.t = "Div" -> "Div"
      [] tok.t = "DoubleEq" -> "Equals"
      [] OTHER -> "-"

\* Display of Operator
OperatorText(op) ==
    CASE op = "Add" -> <<"+">>
      [] op = "Sub" -> <<"-">>
      [] op = "Mul" -> <<"*">>
      [] op = "Div" -> <<"/">>
      [] op = "Equals" -> <<"=", "=">>

\* enum Precedence, in its derived order
Lowest == 0

AddSub == 1

MulDiv == 2

Equality == 3

\* Operator::precedence
precedence(op) ==
    CASE op \in {"Add", "Sub"} -> AddSub
      [] op \in {"Mul", "Div"} -> MulDiv
      [] op = "Equals" -> Equality

----------------------------------------------------------------------------
(* AST                                                                     *)

Nil == [node |-> "Nil"]

Dynamic(name) == [ty |-> "Dynamic", name |-> name]

Mut(inner) == [ty |-> "Mut", inner |-> inner]

LitIdent(tok) == [node |-> "Lit", lit |-> "Ident", name |-> tok]

LitInt(tok) == [node |-> "Lit", lit |-> "Int", name |-> tok]

LitStr(tok) == [node |-> "Lit", lit |-> "Str", name |-> tok]

TypedIdent(tok, ty) ==
    [node |-> "Lit", lit |-> "TypedIdent", name |-> tok, type_annotation |-> ty]

AstBinExpr(l, op, r) == [node |-> "Bin", op |-> op, l |-> l, r |-> r]

AstConditional(condition, if_block, else_block) ==
    [node |-> "Cond", condition |-> condition, if_block |-> if_block,
     else_block |-> else_block]

AstBlock(indent, stmts, has_semi) ==
    [node |-> "Block", indent |-> indent, stmts |-> stmts, has_semi |-> has_semi]

CallArg(name, expr) == [name |-> name, expr |-> expr]

AstCallExpr(called_expr, args) ==
    [node |-> "Call", called_expr |-> called_expr, args |-> args]

AttrAccess(expr, attribute) ==
    [node |-> "Attr", expr |-> expr, attribute |-> attribute]

StmtExpr(expr, has_semi) == [stmt |-> "Expr", expr |-> expr, has_semi |-> has_semi]

StmtReturn(expr) == [stmt |-> "Return", expr |-> expr]

StmtAssignment(target, assigned) ==
    [stmt |-> "Assignment", target |-> target, assigned |-> assigned]

FnDef(name, args, body, return_type) ==
    [stmt |-> "FnDef", name |-> name, args |-> args, body |-> body,
     return_type |-> return_type]

StructDef(name, fields, methods) ==
    [stmt |-> "StructDef", name |-> name, fields |-> fields, methods |-> methods]

----------------------------------------------------------------------------
(* Parser                                                                  *)
(*                                                                         *)
(* S is the token iterator as the sequence of its items and p the number   *)
(* of items consumed from it.  Every rule returns [st, val, pos, err]:     *)
(* Ok(value), Err(ParseErr) or, for todo!() and assert!, an abort.         *)

NoErr == [e |-> "-", ix |-> 0, len |-> 0, x |-> <<>>, lex |-> "-"]

ParseErr(e, ix, len) == [e |-> e, ix |-> ix, len |-> len, x |-> <<>>, lex |-> "-"]

LexErr(item) == [e |-> "LexErr", ix |-> item.at, len |-> 0, x |-> <<>>, lex |-> item.err]

UnexpectedEnd == ParseErr("UnexpectedEnd", 0, 0)

ExpectedToken(ix, len, x) ==
    [e |-> "ExpectedToken", ix |-> ix, len |-> len, x |-> x, lex |-> "-"]

Ok(val, pos) == [st |-> "ok", val |-> val, pos |-> pos, err |-> NoErr]

Err(err, pos) == [st |-> "err", val |-> Nil, pos |-> pos, err |-> err]

Abort(pos) == [st |-> "panic", val |-> Nil, pos |-> pos, err |-> NoErr]

ParseContext_new == [can_parse_annotation |-> TRUE, is_in_paren_block |-> FALSE]

entering_parens(ctx) == [ctx EXCEPT !.is_in_paren_block = TRUE]

without_annotation_parsing(ctx) == [ctx EXCEPT !.can_parse_annotation = FALSE]

\* Peekable::peek
peek(S, p) == IF p < Len(S) THEN S[p + 1] ELSE NoneItem

\* matches!(tokens.peek(), Some(Ok((_, Token::t))))
PeekIs(S, p, t) == peek(S, p).k = "tok" /\ peek(S, p).tok.t = t

\* a call of one parser function by another: Rule(name, args) is name(args)
RECURSIVE Rule(_, _)

get_next_token(S, p) ==
    LET it == peek(S, p) IN
    CASE it.k = "tok" -> Ok(it, p + 1)
      [] it.k = "err" -> Err(LexErr(it), p + 1)
      [] it.k = "none" -> Err(UnexpectedEnd, p)
      [] OTHER -> Abort(p)

\* eat skipping one more token after a mismatch
eat_resync(S, p, expected_type) ==
    LET g == Rule("get_next_token", <<S, p>>) IN
    IF g.st # "ok" THEN g
    ELSE IF g.val.tok = expected_type THEN Ok(Nil, g.pos)
    ELSE Err(ExpectedToken(g.val.at, src_len(g.val.tok), TokenText(expected_type)),
             IF g.pos < Len(S) THEN g.pos + 1 ELSE g.pos)

eat(S, p, expected_type) ==
    LET g == Rule("get_next_token", <<S, p>>) IN
    IF g.st # "ok" THEN g
    ELSE IF g.val.tok = expected_type THEN Ok(Nil, g.pos)
    ELSE Err(ExpectedToken(g.val.at, src_len(g.val.tok), TokenText(expected_type)), g.pos)

\* while matches!(tokens.peek(), Newline) { tokens.next(); }
RECURSIVE skip_newlines(_, _)
skip_newlines(S, p) == IF PeekIs(S, p, "Newline") THEN skip_newlines(S, p + 1) ELSE p

\* expr_has_semi looking only at the token after the expression
expr_has_semi_next(expr, has_semi_next) == has_semi_next

RECURSIVE expr_has_semi(_, _)
expr_has_semi(expr, has_semi_next) ==
    CASE expr.node = "Block" -> expr.has_semi
      [] expr.node = "Cond" ->
            IF expr.else_block.node # "Nil"
            THEN expr_has_semi(expr.else_block, has_semi_next)
            ELSE expr.if_block.has_semi
      [] OTHER -> has_semi_next

\* parse_block never recording a semicolon-less expression-statement
IsNoSemiExpr_never(stmt) == FALSE

\* matches!(stmt, AstStmt::Expr { has_semi: false, .. })
IsNoSemiExpr(stmt) == stmt.stmt = "Expr" /\ ~stmt.has_semi

\* the threshold test written with <= : equal precedence stops the loop
BelowThreshold_inclusive(encountered_precedence, prec) == encountered_precedence <= prec

\* parse_expr_with: the operator just read does not reach the threshold
BelowThreshold(encountered_precedence, prec) == encountered_precedence < prec

\* the right-hand side parsed at the caller's threshold
RhsThreshold_unraised(encountered_precedence, prec) == prec

\* parse_expr_with: the threshold the right-hand side is parsed at
RhsThreshold(encountered_precedence, prec) == encountered_precedence

\* parse_type_decl taking a second `mut` as a second wrapper
parse_type_decl_stacked(S, p) ==
    LET is_mut == PeekIs(S, p, "Mut")
        twice == is_mut /\ PeekIs(S, p + 1, "Mut")
        p1 == IF twice THEN p + 2 ELSE IF is_mut THEN p + 1 ELSE p
        g == Rule("get_next_token", <<S, p1>>)
    IN  IF g.st # "ok" THEN g
        ELSE IF g.val.tok.t = "Ident"
        THEN Ok(IF twice THEN Mut(Mut(Dynamic(g.val.tok.v)))
                ELSE IF is_mut THEN Mut(Dynamic(g.val.tok.v)) ELSE Dynamic(g.val.tok.v), g.pos)
        ELSE Err(ParseErr("ExpectedTypeAnnotation", g.val.at, src_len(g.val.tok)), g.pos)

parse_type_decl(S, p) ==
    LET is_mut == PeekIs(S, p, "Mut")
        p1 == IF is_mut THEN p + 1 ELSE p
        g == Rule("get_next_token", <<S, p1>>)
    IN  IF g.st # "ok" THEN g
        ELSE IF g.val.tok.t = "Ident"
        THEN Ok(IF is_mut THEN Mut(Dynamic(g.val.tok.v)) ELSE Dynamic(g.val.tok.v), g.pos)
        ELSE Err(ParseErr("ExpectedTypeAnnotation", g.val.at, src_len(g.val.tok)), g.pos)

parse_annotation(S, p) ==
    LET e == Rule("eat", <<S, p, Tok("Colon")>>) IN
    IF e.st # "ok" THEN e ELSE Rule("parse_type_decl", <<S, e.pos>>)

RECURSIVE parse_fn_args_loop(_, _, _)
parse_fn_args_loop(S, p, args) ==
    IF ~PeekIs(S, p, "Ident")
    THEN LET e == Rule("eat", <<S, p, Tok("RParen")>>) IN
         IF e.st # "ok" THEN e ELSE Ok(args, e.pos)
    ELSE LET tok == peek(S, p).tok
             a == Rule("parse_annotation", <<S, p + 1>>)
         IN  IF a.st # "ok" THEN a
             ELSE parse_fn_args_loop(
                      S, IF PeekIs(S, a.pos, "Comma") THEN a.pos + 1 ELSE a.pos,
                      Append(args, TypedIdent(tok, a.val)))

parse_fn_args(S, p) == parse_fn_args_loop(S, p, <<>>)

RECURSIVE parse_struct_fields_loop(_, _, _)
parse_struct_fields_loop(S, p, fields) ==
    IF ~PeekIs(S, p, "Ident") THEN Ok(fields, p)
    ELSE LET name == peek(S, p).tok
             a == Rule("parse_annotation", <<S, p + 1>>)
         IN  IF a.st # "ok" THEN a
             ELSE LET e == Rule("eat", <<S, a.pos, Tok("Newline")>>) IN
                  IF e.st # "ok" THEN e
                  ELSE parse_struct_fields_loop(S, e.pos, Append(fields, TypedIdent(name, a.val)))

parse_struct_fields(S, p) == parse_struct_fields_loop(S, p, <<>>)

RECURSIVE parse_block_loop(_, _, _, _, _)
RECURSIVE parse_struct_methods_loop(_, _, _)
RECURSIVE parse_expr_with_loop(_, _, _, _, _, _)
RECURSIVE parse_call_args_loop(_, _, _, _)

\* parse_block closing every block as one that ends with a semicolon
ClosedBlock_always_semi(indent, stmts, has_no_semi_expr) == AstBlock(indent, stmts, TRUE)

\* parse_block: the AstBlock built once the loop is left
ClosedBlock(indent, stmts, has_no_semi_expr) == AstBlock(indent, stmts, ~has_no_semi_expr)

\* parse_block reporting a bare Indent at the end of its token
UnexpectedIndent_past(it) == ParseErr("UnexpectedIndent", it.at + src_len(it.tok), 0)

\* parse_block: the error of the arm for an Indent token
UnexpectedIndent(it) == ParseErr("UnexpectedIndent", it.at, src_len(it.tok))

\* the loop of parse_block, with its locals stmts and has_no_semi_expr
parse_block_loop(S, p, indent, stmts, has_no_semi_expr) ==
    LET it == peek(S, p) IN
    CASE it.k = "none" -> Ok(ClosedBlock(indent, stmts, has_no_semi_expr), p)
      [] it.k = "tok" /\ it.tok.t = "Newline" ->
            parse_block_loop(S, p + 1, indent, stmts, has_no_semi_expr)
      [] it.k = "tok" /\ it.tok.t = "Indent" ->
            Err(UnexpectedIndent(it), p + 1)
      [] it.k = "tok" /\ it.tok.t = "Dedent" ->
            Ok(ClosedBlock(indent, stmts, has_no_semi_expr), p + 1)
      [] it.k = "tok" /\ it.tok.t \notin {"Newline", "Indent", "Dedent"} ->
            IF has_no_semi_expr
            THEN Err(ParseErr("UnexpectedStmt", it.at, src_len(it.tok)), p)
            ELSE LET r == Rule("parse_stmt", <<S, p, indent>>) IN
                 IF r.st # "ok" THEN r
                 ELSE parse_block_loop(S, r.pos, indent, Append(stmts, r.val),
                                       IsNoSemiExpr(r.val))
      [] OTHER -> Abort(p)

parse_block(S, p, indent) == parse_block_loop(S, p, indent, <<>>, FALSE)

parse(S) == parse_block(S, 0, 0)

parse_stmt(S, p, indent) ==
    LET context == ParseContext_new IN
    IF PeekIs(S, p, "Return")
    THEN LET r == Rule("parse_expr", <<S, p + 1, Lowest, indent, context>>) IN
         IF r.st # "ok" THEN r
         ELSE LET e == Rule("eat", <<S, r.pos, Tok("Semicolon")>>) IN
              IF e.st # "ok" THEN e ELSE Ok(StmtReturn(r.val), e.pos)
    ELSE IF PeekIs(S, p, "Def") THEN Rule("parse_fn_def", <<S, p, indent>>)
    ELSE IF PeekIs(S, p, "Struct") THEN Rule("parse_struct_def", <<S, p, indent>>)
    ELSE LET pr == Rule("parse_primary_expr", <<S, p, indent, context>>) IN
         IF pr.st # "ok" THEN pr
         ELSE IF PeekIs(S, pr.pos, "Eq")
         THEN LET a == Rule("parse_expr", <<S, pr.pos + 1, Lowest, indent, context>>) IN
              IF a.st # "ok" THEN a
              ELSE LET e == Rule("eat", <<S, a.pos, Tok("Semicolon")>>) IN
                   IF e.st # "ok" THEN e ELSE Ok(StmtAssignment(pr.val, a.val), e.pos)
         ELSE LET x == Rule("parse_expr_with", <<pr.val, S, pr.pos, Lowest, indent, context>>) IN
              IF x.st # "ok" THEN x
              ELSE LET has_semi_next == PeekIs(S, x.pos, "Semicolon") IN
                   Ok(StmtExpr(x.val, expr_has_semi(x.val, has_semi_next)),
                      IF has_semi_next THEN x.pos + 1 ELSE x.pos)

parse_fn_def(S, p, indent) ==
    LET d == Rule("eat", <<S, p, Tok("Def")>>) IN
    IF d.st # "ok" THEN d ELSE
    LET g == Rule("get_next_token", <<S, d.pos>>) IN
    IF g.st # "ok" THEN g ELSE
    IF g.val.tok.t # "Ident"
    THEN Err(ParseErr("ExpectedFnName", g.val.at, src_len(g.val.tok)), g.pos) ELSE
    LET lp == Rule("eat", <<S, g.pos, Tok("LParen")>>) IN
    IF lp.st # "ok" THEN lp ELSE
    LET args == Rule("parse_fn_args", <<S, lp.pos>>) IN
    IF args.st # "ok" THEN args ELSE
    LET ar == Rule("eat", <<S, args.pos, Tok("Arrow")>>) IN
    IF ar.st # "ok" THEN ar ELSE
    LET rt == Rule("parse_type_decl", <<S, ar.pos>>) IN
    IF rt.st # "ok" THEN rt ELSE
    LET co == Rule("eat", <<S, rt.pos, Tok("Colon")>>) IN
    IF co.st # "ok" THEN co ELSE
    LET nl == Rule("eat", <<S, co.pos, Tok("Newline")>>) IN
    IF nl.st # "ok" THEN nl ELSE
    LET ind == Rule("eat", <<S, nl.pos, Tok("Indent")>>) IN
    IF ind.st # "ok" THEN ind ELSE
    LET body == Rule("parse_block", <<S, ind.pos, indent + 1>>) IN
    IF body.st # "ok" THEN body
    ELSE Ok(FnDef(LitIdent(g.val.tok), args.val, body.val, rt.val), body.pos)

parse_struct_methods_loop(S, p, methods) ==
    IF ~PeekIs(S, p, "Def") THEN Ok(methods, p)
    ELSE LET m == Rule("parse_fn_def", <<S, p, 0>>) IN
         IF m.st # "ok" THEN m
         ELSE parse_struct_methods_loop(S, m.pos, Append(methods, m.val))

parse_struct_methods(S, p) == parse_struct_methods_loop(S, p, <<>>)

parse_struct_def(S, p, indent) ==
    LET s == Rule("eat", <<S, p, Tok("Struct")>>) IN
    IF s.st # "ok" THEN s ELSE
    LET g == Rule("get_next_token", <<S, s.pos>>) IN
    IF g.st # "ok" THEN g ELSE
    IF g.val.tok.t # "Ident"
    THEN Err(ParseErr("ExpectedFnName", g.val.at, src_len(g.val.tok)), g.pos) ELSE
    LET co == Rule("eat", <<S, g.pos, Tok("Colon")>>) IN
    IF co.st # "ok" THEN co ELSE
    LET nl == Rule("eat", <<S, co.pos, Tok("Newline")>>) IN
    IF nl.st # "ok" THEN nl ELSE
    LET ind == Rule("eat", <<S, nl.pos, Tok("Indent")>>) IN
    IF ind.st # "ok" THEN ind ELSE
    LET fields == Rule("parse_struct_fields", <<S, ind.pos>>) IN
    IF fields.st # "ok" THEN fields ELSE
    LET methods == Rule("parse_struct_methods", <<S, skip_newlines(S, fields.pos)>>) IN
    IF methods.st # "ok" THEN methods ELSE
    LET de == Rule("eat", <<S, skip_newlines(S, methods.pos), Tok("Dedent")>>) IN
    IF de.st # "ok" THEN de
    ELSE Ok(StructDef(LitIdent(g.val.tok), fields.val, methods.val), de.pos)

parse_primary_expr(S, p, indent, context) ==
    LET g == Rule("get_next_token", <<S, p>>) IN
    IF g.st # "ok" THEN g ELSE
    LET ix == g.val.at
        tok == g.val.tok
    IN  CASE tok.t = "LParen" -> Rule("parse_expr", <<S, g.pos, Lowest, indent, context>>)
          [] tok.t = "If" -> Rule("parse_conditional", <<S, g.pos, indent>>)
          [] tok.t = "Ident" ->
                IF PeekIs(S, g.pos, "Colon") /\ context.can_parse_annotation
                THEN LET a == Rule("parse_annotation", <<S, g.pos>>) IN
                     IF a.st # "ok" THEN a
                     ELSE Rule("parse_postfix_expr", <<TypedIdent(tok, a.val), S, a.pos>>)
                ELSE Rule("parse_postfix_expr", <<LitIdent(tok), S, g.pos>>)
          [] tok.t = "IntLiteral" -> Rule("parse_postfix_expr", <<LitInt(tok), S, g.pos>>)
          [] tok.t = "StrLiteral" -> Rule("parse_postfix_expr", <<LitStr(tok), S, g.pos>>)
          [] OTHER -> Err(ParseErr("InvalidExpressionStart", ix, src_len(tok)), g.pos)

\* the `else` part of parse_conditional; Ok(Nil) is else_block = None
parse_else(S, p, indent) ==
    IF ~PeekIs(S, p, "Else") THEN Ok(Nil, p) ELSE
    LET g == Rule("get_next_token", <<S, p + 1>>) IN
    IF g.st # "ok" THEN g ELSE
    CASE g.val.tok.t = "If" -> Rule("parse_conditional", <<S, g.pos, indent>>)
      [] g.val.tok.t = "Colon" ->
            LET nl == Rule("eat", <<S, g.pos, Tok("Newline")>>) IN
            IF nl.st # "ok" THEN nl ELSE
            LET ind == Rule("eat", <<S, nl.pos, Tok("Indent")>>) IN
            IF ind.st # "ok" THEN ind ELSE Rule("parse_block", <<S, ind.pos, indent + 1>>)
      [] OTHER -> Err(ParseErr("ExpectedColon", g.val.at, src_len(g.val.tok)), g.pos)

parse_conditional(S, p, indent) ==
    LET ctx == without_annotation_parsing(ParseContext_new)
        cond_expr == Rule("parse_expr", <<S, p, Lowest, indent, ctx>>)
    IN  IF cond_expr.st # "ok" THEN cond_expr ELSE
    LET g == Rule("get_next_token", <<S, cond_expr.pos>>) IN
    IF g.st # "ok" THEN g ELSE
    IF g.val.tok.t # "Colon"
    THEN Err(ParseErr("ExpectedColon", g.val.at, src_len(g.val.tok)), g.pos) ELSE
    LET ind == IF PeekIs(S, g.pos, "Newline")
               THEN Rule("eat", <<S, g.pos + 1, Tok("Indent")>>)
               ELSE Ok(Nil, g.pos)
    IN  IF ind.st # "ok" THEN ind ELSE
    LET if_block == Rule("parse_block", <<S, ind.pos, indent + 1>>) IN
    IF if_block.st # "ok" THEN if_block ELSE
    LET else_block == Rule("parse_else", <<S, if_block.pos, indent>>) IN
    IF else_block.st # "ok" THEN else_block
    ELSE Ok(AstConditional(cond_expr.val, if_block.val, else_block.val), else_block.pos)

parse_expr(S, p, prec, indent, context) ==
    LET lhs == Rule("parse_primary_expr", <<S, p, indent, context>>) IN
    IF lhs.st # "ok" THEN lhs
    ELSE Rule("parse_expr_with", <<lhs.val, S, lhs.pos, prec, indent, context>>)

\* the loop of parse_expr_with and the parse_postfix_expr that follows it
parse_expr_with_loop(lhs, S, p, prec, indent, context) ==
    LET it == peek(S, p) IN
    IF it.k # "tok" THEN Rule("parse_postfix_expr", <<lhs, S, p>>)
    ELSE IF it.tok.t = "Semicolon" THEN Rule("parse_postfix_expr", <<lhs, S, p>>)
    ELSE IF it.tok.t = "RParen"
    THEN Rule("parse_postfix_expr", <<lhs, S, IF ~context.is_in_paren_block THEN p + 1 ELSE p>>)
    ELSE IF as_operator(it.tok) = "-" THEN Rule("parse_postfix_expr", <<lhs, S, p>>)
    ELSE LET op == as_operator(it.tok)
             encountered_precedence == precedence(op)
         IN  IF BelowThreshold(encountered_precedence, prec)
             THEN Rule("parse_postfix_expr", <<lhs, S, p>>)
             ELSE LET rhs == Rule("parse_expr", <<S, p + 1, RhsThreshold(encountered_precedence, prec),
                                             indent, context>>) IN
                  IF rhs.st # "ok" THEN rhs
                  ELSE LET c == Rule("parse_postfix_expr", <<AstBinExpr(lhs, op, rhs.val), S, rhs.pos>>) IN
                       IF c.st # "ok" THEN c
                       ELSE parse_expr_with_loop(c.val, S, c.pos, prec, indent, context)

parse_expr_with(parsed_expr, S, p, prec, indent, context) ==
    LET lhs == Rule("parse_postfix_expr", <<parsed_expr, S, p>>) IN
    IF lhs.st # "ok" THEN lhs
    ELSE parse_expr_with_loop(lhs.val, S, lhs.pos, prec, indent, context)

parse_attr_access(lhs, S, p) ==
    LET d == Rule("eat", <<S, p, Tok("Dot")>>) IN
    IF d.st # "ok" THEN d ELSE
    LET g == Rule("get_next_token", <<S, d.pos>>) IN
    IF g.st # "ok" THEN g
    ELSE IF g.val.tok.t # "Ident" THEN Abort(g.pos)
    ELSE Ok(AttrAccess(lhs, LitIdent(g.val.tok)), g.pos)

parse_postfix_expr(lhs, S, p) ==
    IF PeekIs(S, p, "LParen")
    THEN LET c == Rule("parse_call_expr", <<lhs, S, p>>) IN
         IF c.st # "ok" THEN c ELSE Rule("parse_postfix_expr", <<c.val, S, c.pos>>)
    ELSE IF PeekIs(S, p, "Dot")
    THEN LET a == Rule("parse_attr_access", <<lhs, S, p>>) IN
         IF a.st # "ok" THEN a ELSE Rule("parse_postfix_expr", <<a.val, S, a.pos>>)
    ELSE Ok(lhs, p)

\* the while loop of parse_call_expr; Ok(call_args) at its exit
parse_call_args_loop(S, p, is_vertical, call_args) ==
    IF PeekIs(S, p, "RParen") \/ PeekIs(S, p, "Dedent") THEN Ok(call_args, p) ELSE
    LET ctx == entering_parens(ParseContext_new)
        first == Rule("parse_expr", <<S, p, Lowest, 0, ctx>>)
    IN  IF first.st # "ok" THEN first ELSE
    LET is_named_arg == first.val.node = "Lit" /\ PeekIs(S, first.pos, "Eq")
        second == IF is_named_arg
                  THEN Rule("parse_expr", <<S, first.pos + 1, Lowest, 0, ctx>>)
                  ELSE first
    IN  IF second.st # "ok" THEN second ELSE
    LET arg == IF is_named_arg THEN CallArg(first.val, second.val)
               ELSE CallArg(Nil, first.val)
        args == Append(call_args, arg)
    IN  IF ~PeekIs(S, second.pos, "Comma") THEN Ok(args, second.pos) ELSE
    LET nl == IF is_vertical THEN Rule("eat", <<S, second.pos + 1, Tok("Newline")>>)
              ELSE Ok(Nil, second.pos + 1)
    IN  IF nl.st # "ok" THEN nl
        ELSE parse_call_args_loop(S, nl.pos, is_vertical, args)

parse_call_expr(fn_expr, S, p) ==
    LET lp == Rule("eat", <<S, p, Tok("LParen")>>) IN
    IF lp.st # "ok" THEN lp ELSE
    LET is_vertical == PeekIs(S, lp.pos, "Newline")
        ind == IF is_vertical THEN Rule("eat", <<S, lp.pos + 1, Tok("Indent")>>) ELSE Ok(Nil, lp.pos)
    IN  IF ind.st # "ok" THEN ind ELSE
    LET args == parse_call_args_loop(S, ind.pos, is_vertical, <<>>) IN
    IF args.st # "ok" THEN args ELSE
    LET de == IF is_vertical THEN Rule("eat", <<S, args.pos, Tok("Dedent")>>) ELSE Ok(Nil, args.pos) IN
    IF de.st # "ok" THEN de ELSE
    LET rp == Rule("eat", <<S, de.pos, Tok("RParen")>>) IN
    IF rp.st # "ok" THEN rp ELSE Ok(AstCallExpr(fn_expr, args.val), rp.pos)

Rule(name, a) ==
    CASE name = "parse_type_decl" ->
            parse_type_decl(a[1], a[2])
      [] name = "parse_annotation" ->
            parse_annotation(a[1], a[2])
      [] name = "parse_fn_args" ->
            parse_fn_args(a[1], a[2])
      [] name = "parse_struct_fields" ->
            parse_struct_fields(a[1], a[2])
      [] name = "parse_struct_methods" ->
            parse_struct_methods(a[1], a[2])
      [] name = "parse_block" ->
            parse_block(a[1], a[2], a[3])
      [] name = "parse_stmt" ->
            parse_stmt(a[1], a[2], a[3])
      [] name = "parse_fn_def" ->
            parse_fn_def(a[1], a[2], a[3])
      [] name = "parse_struct_def" ->
            parse_struct_def(a[1], a[2], a[3])
      [] name = "parse_primary_expr" ->
            parse_primary_expr(a[1], a[2], a[3], a[4])
      [] name = "parse_conditional" ->
            parse_conditional(a[1], a[2], a[3])
      [] name = "parse_else" ->
            parse_else(a[1], a[2], a[3])
      [] name = "parse_expr" ->
            parse_expr(a[1], a[2], a[3], a[4], a[5])
      [] name = "parse_expr_with" ->
            parse_expr_with(a[1], a[2], a[3], a[4], a[5], a[6])
      [] name = "parse_attr_access" ->
            parse_attr_access(a[1], a[2], a[3])
      [] name = "parse_postfix_expr" ->
            parse_postfix_expr(a[1], a[2], a[3])
      [] name = "parse_call_expr" ->
            parse_call_expr(a[1], a[2], a[3])
      [] name = "eat" ->
            eat(a[1], a[2], a[3])
      [] name = "get_next_token" ->
            get_next_token(a[1], a[2])
----------------------------------------------------------------------------
(* Display of the AST (the textual rendering)                              *)

RECURSIVE Spaces(_)
Spaces(n) == IF n = 0 THEN <<>> ELSE <<" ">> \o Spaces(n - 1)

\* [String].join(sep)
RECURSIVE Join(_, _)
Join(ss, sep) ==
    IF ss = <<>> THEN <<>>
    ELSE IF Len(ss) = 1 THEN ss[1]
    ELSE ss[1] \o sep \o Join(Tail(ss), sep)

RECURSIVE DisplayType(_)
DisplayType(ty) ==
    IF ty.ty = "Mut" THEN <<"m", "u", "t", " ">> \o DisplayType(ty.inner)
    ELSE ty.name

DisplayLiteral(lit) ==
    IF lit.lit = "TypedIdent"
    THEN TokenText(lit.name) \o <<":", " ">> \o DisplayType(lit.type_annotation)
    ELSE TokenText(lit.name)

RECURSIVE DisplayExpr(_)
RECURSIVE DisplayStmt(_)
RECURSIVE DisplayBlock(_)

DisplayBinExpr(bin) ==
    <<"(">> \o DisplayExpr(bin.l) \o <<" ">> \o OperatorText(bin.op) \o <<" ">>
        \o DisplayExpr(bin.r) \o <<")">>

DisplayConditional(c) ==
    LET else_ ==
            IF c.else_block.node # "Nil"
            THEN LET indent == IF c.if_block.indent > 0 THEN c.if_block.indent - 1 ELSE 0 IN
                 Spaces(indent * 4) \o <<"e", "l", "s", "e", ":", "\n">>
                     \o DisplayExpr(c.else_block)
            ELSE <<>>
    IN  <<"i", "f", " ">> \o DisplayExpr(c.condition) \o <<":", "\n">>
            \o DisplayBlock(c.if_block) \o else_

DisplayCallArg(a) ==
    IF a.name.node # "Nil"
    THEN DisplayExpr(a.name) \o <<"=">> \o DisplayExpr(a.expr)
    ELSE DisplayExpr(a.expr)

DisplayCallExpr(c) ==
    DisplayExpr(c.called_expr) \o <<"(">>
        \o Join([i \in 1..Len(c.args) |-> DisplayCallArg(c.args[i])], <<",">>)
        \o <<")">>

DisplayExpr(e) ==
    CASE e.node = "Cond" -> DisplayConditional(e)
      [] e.node = "Bin" -> DisplayBinExpr(e)
      [] e.node = "Lit" -> DisplayLiteral(e)
      [] e.node = "Block" -> DisplayBlock(e)
      [] e.node = "Call" -> DisplayCallExpr(e)

DisplayStmt(s) ==
    CASE s.stmt = "StructDef" ->
            <<"s", "t", "r", "u", "c", "t", " ">> \o DisplayLiteral(s.name) \o <<":", "\n">>
                \o Join([i \in 1..Len(s.fields) |->
                            Spaces(4) \o DisplayLiteral(s.fields[i])], <<"\n">>)
      [] s.stmt = "FnDef" ->
            <<"d", "e", "f", " ">> \o DisplayLiteral(s.name) \o <<"(">>
                \o Join([i \in 1..Len(s.args) |-> DisplayLiteral(s.args[i])], <<",", " ">>)
                \o <<")", " ", "-", ">", " ">> \o DisplayType(s.return_type)
                \o <<":", "\n">> \o DisplayBlock(s.body) \o <<";">>
      [] s.stmt = "Assignment" ->
            DisplayExpr(s.target) \o <<" ", "=", " ">> \o DisplayExpr(s.assigned) \o <<";">>
      [] s.stmt = "Expr" ->
            DisplayExpr(s.expr) \o (IF s.has_semi THEN <<";">> ELSE <<>>)
      [] s.stmt = "Return" ->
            <<"r", "e", "t", "u", "r", "n", " ">> \o DisplayExpr(s.expr) \o <<";">>

DisplayBlock(b) ==
    Flatten([i \in 1..Len(b.stmts) |->
                Spaces(b.indent * 4) \o DisplayStmt(b.stmts[i]) \o <<"\n">>])

----------------------------------------------------------------------------
(* The reporter                                                            *)

\* the escape sequences \x1b[1m, \x1b[91m and \x1b[0m, one element each
BOLD == "ESC[1m"

RED == "ESC[91m"

RESET == "ESC[0m"

NotReported == [st |-> "-", val |-> Nil, out |-> <<>>]

\* `{}` of a usize in format!
RECURSIVE usize_to_string(_)
usize_to_string(n) ==
    LET digit == <<"0", "1", "2", "3", "4", "5", "6", "7", "8", "9">>[(n % 10) + 1] IN
    IF n < 10 THEN <<digit>> ELSE usize_to_string(n \div 10) \o <<digit>>

RECURSIVE Repeat(_, _)
Repeat(c, n) == IF n = 0 THEN <<>> ELSE <<c>> \o Repeat(c, n - 1)

\* (line, line_no, ix - start) for the byte offset ix of s
extract_line(s, ix) ==
    LET before_ix == Take(s, ix)
        after_ix == Drop(s, ix)
        newlines == { i \in 1..Len(before_ix) : before_ix[i] = "\n" }
        start == IF newlines = {} THEN 0
                 ELSE CHOOSE i \in newlines : \A j \in newlines : j <= i
        end == ix + FindIn(after_ix, {"\n"})
        line_no == Cardinality(newlines)
    IN  [line |-> SubSeq(s, start + 1, end), line_no |-> line_no, ix_in_line |-> ix - start]

\* the end of the range both line renderings replace
RangeEnd(line, ix, token_len) ==
    IF ix + token_len < Len(line) THEN ix + token_len ELSE Len(line)

highlight_line(line, ix, token_len) ==
    Take(line, ix) \o <<RED>> \o SubSeq(line, ix + 1, RangeEnd(line, ix, token_len))
        \o <<RESET>> \o Drop(line, RangeEnd(line, ix, token_len))

underline_line(line, ix, token_len) ==
    Repeat(" ", ix) \o <<RED>> \o Repeat("^", token_len) \o <<RESET>>
        \o Repeat(" ", Len(line) - RangeEnd(line, ix, token_len))

\* the format! of print_err; err_msg is a sequence of characters and pieces
print_err(s, err_msg, ix, len) ==
    LET e == extract_line(s, ix) IN
    <<"\n", BOLD, "Error: ">> \o err_msg \o <<" ">> \o usize_to_string(e.line_no) \o <<":">>
        \o usize_to_string(ix) \o <<":", RESET, "\n", "\n", "\t">>
        \o highlight_line(e.line, e.ix_in_line, len) \o <<"\n", "\t">>
        \o underline_line(e.line, e.ix_in_line, len) \o <<"\n", "\n">>

\* the message report chooses for each ParseErr
err_msg_of(err) ==
    CASE err.e = "InvalidExpressionStart" -> <<"Expected Expression at Position">>
      [] err.e = "ExpectedSemi" -> <<"Expected Semicolon at Position">>
      [] err.e = "ExpectedTypeAnnotation" -> <<"Expected Valid Type In Annotation at Position">>
      [] err.e = "ExpectedColon" -> <<"Expected Colon Starting Block">>
      [] err.e = "UnexpectedStmt" ->
            <<"Unexpected Statement (Previous statement may be missing a semicolon)">>
      [] err.e = "UnexpectedIndent" -> <<"Unexpected Indent Level At Position (Expected 0)">>
      [] err.e = "ExpectedToken" -> <<"Expected '">> \o err.x \o <<"' at Position">>
      [] err.e = "LexErr" -> <<"Lex Err">>
      [] err.e = "ExpectedFnName" -> <<"Expected Function Name at Position">>
      [] err.e = "ExpectedNewline" -> <<"Eepected Newline at Position">>

report(parsed, s) ==
    IF parsed.st = "ok" THEN [st |-> "ok", val |-> parsed.val, out |-> <<>>]
    ELSE IF parsed.err.e = "UnexpectedEnd"
    THEN [st |-> "err", val |-> Nil, out |-> <<"Reached Unexpected End Of Input">>]
    ELSE [st |-> "err", val |-> Nil,
          out |-> print_err(s, err_msg_of(parsed.err), parsed.err.ix,
                            IF parsed.err.e = "LexErr" THEN 1 ELSE parsed.err.len)]

----------------------------------------------------------------------------
(* The lexer driven call by call                                           *)

Pieces ==
    { <<" ", " ", " ", " ">>, <<" ">>, <<"\n">>, <<"a">>, <<"\"">> }

LexInputs ==
    { Flatten(ps) : ps \in UNION { [1..n -> Pieces] : n \in 0..MaxPieces } }

Aborted == emitted # <<>> /\ emitted[Len(emitted)].k = "panic"

InitLex ==
    /\ src \in LexInputs
    /\ lexer = Lexer_new(src)
    /\ emitted = <<>>
    /\ phase = "lex"
    /\ stream = <<>>
    /\ result = Ok(Nil, 0)
    /\ text = <<>>
    /\ stream2 = <<>>
    /\ result2 = Ok(Nil, 0)
    /\ reported = NotReported

\* the driver calls next() once more; nothing runs after an assertion failed
Call ==
    /\ phase = "lex"
    /\ ~Aborted
    /\ Len(emitted) < MaxCalls
    /\ LET r == next(lexer) IN
        /\ lexer' = r.lexer
        /\ emitted' = Append(emitted, r.item)
    /\ UNCHANGED <<src, phase, stream, result, text, stream2, result2, reported>>

NextLex == Call

Spec == InitLex /\ [][NextLex]_vars

----------------------------------------------------------------------------
(* parse_expr applied to a token list, as the parser's unit tests do       *)

Operand(i) == Ident(<<"x", DigitChar(i)>>)

OperatorTokens == {Tok("Add"), Tok("Sub"), Tok("Mul"), Tok("Div"), Tok("DoubleEq")}

\* x0 op1 x1 ... opn xn
Chain(ops) ==
    [i \in 1..(2 * Len(ops) + 1) |->
        IF i % 2 = 1 THEN Operand(i \div 2) ELSE ops[i \div 2]]

Chains == { Chain(ops) : ops \in UNION { [1..n -> OperatorTokens] : n \in 1..MaxOps } }

InitExpr ==
    /\ src = <<>>
    /\ lexer = Lexer_new(<<>>)
    /\ emitted = <<>>
    /\ phase = "expr"
    /\ stream \in { Enumerate(c) : c \in Chains }
    /\ result = Ok(Nil, 0)
    /\ text = <<>>
    /\ stream2 = <<>>
    /\ result2 = Ok(Nil, 0)
    /\ reported = NotReported

ParseExpr ==
    /\ phase = "expr"
    /\ result' = parse_expr(stream, 0, Lowest, 0, ParseContext_new)
    /\ phase' = "done"
    /\ UNCHANGED <<src, lexer, emitted, stream, text, stream2, result2, reported>>

NextExpr == ParseExpr

SpecExpr == InitExpr /\ [][NextExpr]_vars

----------------------------------------------------------------------------
(* The pipeline: lex, parse, render, lex and parse the rendering           *)

Fragments ==
    { <<"a", ";", "\n">>,
      <<"b", "\n">>,
      <<"r","e","t","u","r","n"," ","c"," ","*"," ","d"," ","+"," ","e",";","\n">>,
      <<"i","f"," ","x"," ","=","="," ","9","0",":","\n"," "," "," "," ","y","\n">>,
      <<"e","l","s","e",":","\n"," "," "," "," ","z",";","\n">>,
      <<"e","l","s","e"," ","i","f"," ","w",":","\n"," "," "," "," ","v",";","\n">>,
      <<";", "\n">>,
      <<"d","e","f"," ","f","(","a",":"," ","t",")"," ","-",">"," ","t",":","\n",
        " "," "," "," ","r","e","t","u","r","n"," ","a",";","\n">>,
      <<"s","t","r","u","c","t"," ","p",":","\n"," "," "," "," ","q",":"," ","t","\n">>,
      <<"$", "\n">>,
      <<"r","e","t","u","r","n"," ","n","\n">>,
      <<"g"," ","="," ","h","(","k",","," ","m",")",";","\n">> }

Programs ==
    { Flatten(fs) : fs \in UNION { [1..n -> Fragments] : n \in 0..MaxFrags } }

InitParse ==
    /\ src \in Programs
    /\ lexer = Lexer_new(src)
    /\ emitted = <<>>
    /\ phase = "lex"
    /\ stream = <<>>
    /\ result = Ok(Nil, 0)
    /\ text = <<>>
    /\ stream2 = <<>>
    /\ result2 = Ok(Nil, 0)
    /\ reported = NotReported

\* the parser's Peekable<Lexer> iterator, materialised
Lex ==
    /\ phase = "lex"
    /\ stream' = LexAll(src)
    /\ phase' = "parse"
    /\ UNCHANGED <<src, lexer, emitted, result, text, stream2, result2, reported>>

Parse ==
    /\ phase = "parse"
    /\ result' = parse(stream)
    /\ phase' = IF result'.st = "ok" THEN "render" ELSE "done"
    /\ UNCHANGED <<src, lexer, emitted, stream, text, stream2, result2, reported>>

Render ==
    /\ phase = "render"
    /\ text' = DisplayBlock(result.val)
    /\ phase' = "reparse"
    /\ UNCHANGED <<src, lexer, emitted, stream, result, stream2, result2, reported>>

Reparse ==
    /\ phase = "reparse"
    /\ stream2' = LexAll(text)
    /\ result2' = parse(stream2')
    /\ phase' = "done"
    /\ UNCHANGED <<src, lexer, emitted, stream, result, text, reported>>

NextParse == Lex \/ Parse \/ Render \/ Reparse

SpecParse == InitParse /\ [][NextParse]_vars

----------------------------------------------------------------------------
(* The lexer on indented lines: an empty first line, then lines of 0 to    *)
(* MaxUnits indent units, each with or without a token                      *)

MaxIndentLines == 4

MaxUnits == 3

RECURSIVE Units(_)
Units(n) == IF n = 0 THEN <<>> ELSE <<" ", " ", " ", " ">> \o Units(n - 1)

IndentedLines ==
    { Units(n) \o body \o <<"\n">> : n \in 0..MaxUnits, body \in {<<>>, <<"a">>} }

IndentInputs ==
    { <<"\n">> \o Flatten(ls) :
        ls \in UNION { [1..n -> IndentedLines] : n \in 0..MaxIndentLines } }

InitIndent ==
    /\ src \in IndentInputs
    /\ lexer = Lexer_new(src)
    /\ emitted = <<>>
    /\ phase = "lex"
    /\ stream = <<>>
    /\ result = Ok(Nil, 0)
    /\ text = <<>>
    /\ stream2 = <<>>
    /\ result2 = Ok(Nil, 0)
    /\ reported = NotReported

SpecIndent == InitIndent /\ [][NextLex]_vars

----------------------------------------------------------------------------
(* The lexer on sequences of lexemes of every kind                         *)

MaxLexemes == 3

Lexemes ==
    { <<"a">>, <<"7">>, <<"1", "_", "0">>,
      <<"2","1","4","7","4","8","3","6","4","7">>,
      <<"2","1","4","7","4","8","3","6","4","8">>,
      <<"$">>, <<"\"", "b", "\"">>, <<"\"">>,
      <<" ">>, <<"\n">>, <<"\n", " ", " ", " ", " ", "\n">>,
      <<"\n", " ", " ", " ", " ", "\n", " ", " ", " ", " ", " ", " ", " ", " ", "\n",
        " ", " ", " ", " ">>,
      <<"-">>, <<">">>, <<"=">>, <<"(">>, <<".">> }

TokenInputs ==
    { Flatten(ps) : ps \in UNION { [1..n -> Lexemes] : n \in 0..MaxLexemes } }

InitTokens ==
    /\ src \in TokenInputs
    /\ lexer = Lexer_new(src)
    /\ emitted = <<>>
    /\ phase = "lex"
    /\ stream = <<>>
    /\ result = Ok(Nil, 0)
    /\ text = <<>>
    /\ stream2 = <<>>
    /\ result2 = Ok(Nil, 0)
    /\ reported = NotReported

SpecTokens == InitTokens /\ [][NextLex]_vars

----------------------------------------------------------------------------
(* Lex, parse and report on programs made of annotated declarations        *)

MaxParts == 2

Qualifiers == { <<>>, <<"m","u","t"," ">>, <<"m","u","t"," ","m","u","t"," ">> }

TypedLine(q) == <<"c",":"," ">> \o q \o <<"t",";","\n">>

DefLines(q1, q2) ==
    <<"d","e","f"," ","f","(","a",":"," ">> \o q1 \o <<"t",")"," ","-",">"," ">> \o q2
        \o <<"t",":","\n"," "," "," "," ","r","e","t","u","r","n"," ","a",";","\n">>

StructLines(q) ==
    <<"s","t","r","u","c","t"," ","p",":","\n"," "," "," "," ","q",":"," ">> \o q \o <<"t","\n">>

Parts ==
    { TypedLine(q) : q \in Qualifiers }
        \cup { DefLines(q1, q2) : q1, q2 \in Qualifiers }
        \cup { StructLines(q) : q \in Qualifiers }
        \cup { <<"a",";","\n">>, <<"b","\n">>, <<"$","\n">>,
             <<"a"," ","+"," ","$",";","\n">> }

Declarations ==
    { Flatten(fs) : fs \in UNION { [1..n -> Parts] : n \in 0..MaxParts } }

InitReport ==
    /\ src \in Declarations
    /\ lexer = Lexer_new(src)
    /\ emitted = <<>>
    /\ phase = "lex"
    /\ stream = <<>>
    /\ result = Ok(Nil, 0)
    /\ text = <<>>
    /\ stream2 = <<>>
    /\ result2 = Ok(Nil, 0)
    /\ reported = NotReported

Report ==
    /\ phase \in {"render", "done"}
    /\ result.st # "panic"
    /\ reported' = report(result, src)
    /\ phase' = "reported"
    /\ UNCHANGED <<src, lexer, emitted, stream, result, text, stream2, result2>>

NextReport == Lex \/ Parse \/ Report

SpecReport == InitReport /\ [][NextReport]_vars

----------------------------------------------------------------------------
(* Lex, parse and report on conditionals: `if C:` with a body of one line, *)
(* then up to MaxElifs branches `else if C:`                               *)

MaxElifs == 1

Conditions ==
    { <<"x">>,
      <<"x"," ","=","="," ","9">>,
      <<"x"," ","+"," ","w">>,
      <<"f","(","x",")">>,
      <<"f","(","x",":"," ","t",")">>,
      <<"f","(","x"," ","+"," ","w",")">>,
      <<"f","(","g","(","x",":"," ","t",")",")">>,
      <<"x"," ","=","="," ","f","(","w",":"," ","t",")">>,
      <<"f","(","x",","," ","w",":"," ","t",")">> }

IfLines(c) == <<"i","f"," ">> \o c \o <<":","\n"," "," "," "," ","y","\n">>

ElifLines(c) == <<"e","l","s","e"," ","i","f"," ">> \o c \o <<":","\n"," "," "," "," ","v",";","\n">>

RECURSIVE Branches(_)
Branches(cs) == IF cs = <<>> THEN <<>> ELSE ElifLines(Head(cs)) \o Branches(Tail(cs))

Conditionals ==
    { IfLines(c) \o Branches(cs) :
        c \in Conditions, cs \in UNION { [1..n -> Conditions] : n \in 0..MaxElifs } }

InitCond ==
    /\ src \in Conditionals
    /\ lexer = Lexer_new(src)
    /\ emitted = <<>>
    /\ phase = "lex"
    /\ stream = <<>>
    /\ result = Ok(Nil, 0)
    /\ text = <<>>
    /\ stream2 = <<>>
    /\ result2 = Ok(Nil, 0)
    /\ reported = NotReported

SpecCond == InitCond /\ [][NextReport]_vars

----------------------------------------------------------------------------
(* Lex, parse and report on programs made of statement lines, some of them *)
(* indented without a construct that opens a block                         *)

MaxLines == 3

StmtLines ==
    { <<"a",";","\n">>,
      <<"b","\n">>,
      <<" "," "," "," ","a",";","\n">>,
      <<" "," "," "," "," "," "," "," ","c",";","\n">>,
      <<"i","f"," ","x",":","\n"," "," "," "," ","y","\n">>,
      <<"i","f"," ","x",":","\n"," "," "," "," ","z",";","\n">>,
      <<"d","e","f"," ","f","(","a",":"," ","t",")"," ","-",">"," ","t",":","\n",
        " "," "," "," ","r","e","t","u","r","n"," ","a",";","\n">>,
      <<"$","\n">> }

LinePrograms ==
    { Flatten(ls) : ls \in UNION { [1..n -> StmtLines] : n \in 0..MaxLines } }

InitBlocks ==
    /\ src \in LinePrograms
    /\ lexer = Lexer_new(src)
    /\ emitted = <<>>
    /\ phase = "lex"
    /\ stream = <<>>
    /\ result = Ok(Nil, 0)
    /\ text = <<>>
    /\ stream2 = <<>>
    /\ result2 = Ok(Nil, 0)
    /\ reported = NotReported

SpecBlocks == InitBlocks /\ [][NextReport]_vars

----------------------------------------------------------------------------
(* parse_expr on x0 op ( E2 ) op' x9, E2 a chain of up to MaxInner operators *)

MaxInner == 1

InnerChains ==
    { [i \in 1..(2 * Len(ops) + 1) |->
          IF i % 2 = 1 THEN Ident(<<"y", DigitChar(i \div 2)>>) ELSE ops[i \div 2]] :
        ops \in UNION { [1..n -> OperatorTokens] : n \in 0..MaxInner } }

\* x0 op ( inner ) op' x9
Parenthesised(op1, inner, op2) ==
    <<Operand(0), op1, Tok("LParen")>> \o inner \o <<Tok("RParen"), op2, Operand(9)>>

ParenStreams ==
    { Parenthesised(op1, inner, op2) :
        op1 \in OperatorTokens, inner \in InnerChains, op2 \in OperatorTokens }

InitParen ==
    /\ src = <<>>
    /\ lexer = Lexer_new(<<>>)
    /\ emitted = <<>>
    /\ phase = "expr"
    /\ stream \in { Enumerate(c) : c \in ParenStreams }
    /\ result = Ok(Nil, 0)
    /\ text = <<>>
    /\ stream2 = <<>>
    /\ result2 = Ok(Nil, 0)
    /\ reported = NotReported

SpecParen == InitParen /\ [][NextExpr]_vars

----------------------------------------------------------------------------
(* parse_expr on calls f(A1, ..., An), each argument an operand or one     *)
(* operator between two operands, with or without parentheses around it    *)

MaxArgs == 2

ArgShapes ==
    { [paren |-> p, ops |-> ops] :
        p \in BOOLEAN, ops \in {<<>>} \cup { <<op>> : op \in OperatorTokens } }

ArgOperand(i, k) == Ident(<<"a", DigitChar(i), DigitChar(k)>>)

\* the tokens of the i-th argument
ArgTokens(shape, i) ==
    (IF shape.paren THEN <<Tok("LParen")>> ELSE <<>>)
        \o <<ArgOperand(i, 0)>>
        \o (IF shape.ops = <<>> THEN <<>> ELSE <<shape.ops[1], ArgOperand(i, 1)>>)
        \o (IF shape.paren THEN <<Tok("RParen")>> ELSE <<>>)

RECURSIVE ArgListTokens(_, _)
ArgListTokens(shapes, i) ==
    IF i > Len(shapes) THEN <<>>
    ELSE ArgTokens(shapes[i], i)
            \o (IF i < Len(shapes) THEN <<Tok("Comma")>> ELSE <<>>)
            \o ArgListTokens(shapes, i + 1)

\* f ( A1 , ... , An )
CallTokens(shapes) ==
    <<Ident(<<"f">>), Tok("LParen")>> \o ArgListTokens(shapes, 1) \o <<Tok("RParen")>>

ArgLists == UNION { [1..n -> ArgShapes] : n \in 1..MaxArgs }

InitCall ==
    /\ src = <<>>
    /\ lexer = Lexer_new(<<>>)
    /\ emitted = <<>>
    /\ phase = "expr"
    /\ stream \in { Enumerate(CallTokens(shapes)) : shapes \in ArgLists }
    /\ result = Ok(Nil, 0)
    /\ text = <<>>
    /\ stream2 = <<>>
    /\ result2 = Ok(Nil, 0)
    /\ reported = NotReported

SpecCall == InitCall /\ [][NextExpr]_vars

----------------------------------------------------------------------------
(* Claims about the lexer, checked under Spec                              *)

Count(t) ==
    Cardinality({ i \in 1..Len(emitted) : emitted[i].k = "tok" /\ emitted[i].tok.t = t })

\* C1: after any sequence of next() calls, the number of Indent tokens
\* emitted minus the number of Dedent tokens emitted equals indent_level,
\* and indent_level is never negative
C1_IndentBalance ==
    /\ Count("Indent") - Count("Dedent") = lexer.indent_level
    /\ lexer.indent_level >= 0

\* a run that opened a level and closed it again
C1_Witness ==
    /\ Count("Indent") >= 1
    /\ Count("Dedent") >= 1
    /\ lexer.indent_level = 0
    /\ ~Aborted

FourSpaces == <<" ", " ", " ", " ">>

Kinds(items) == [i \in 1..Len(items) |-> IF items[i].k = "tok" THEN items[i].tok.t ELSE items[i].k]

\* C5: the first line of the input is measured like a line after a Newline:
\* an input that starts with four spaces and a token starts with Indent, and
\* the input "    a\na" lexes to Indent, Ident, Newline, Dedent, Ident
C5_FirstLineMeasured ==
    /\ (Len(src) >= 5 /\ Take(src, 4) = FourSpaces /\ src[5] \notin {" ", "\n"}
            /\ Len(emitted) >= 1)
        => emitted[1] = OkItem(0, Tok("Indent"))
    /\ (src = FourSpaces \o <<"a", "\n", "a">> /\ emitted # <<>>
            /\ emitted[Len(emitted)].k = "none")
        => Kinds(emitted) = <<"Indent", "Ident", "Newline", "Dedent", "Ident", "none">>

Quotes == { i \in 1..Len(src) : src[i] = "\"" }

LastQuote == CHOOSE q \in Quotes : \A r \in Quotes : r <= q

\* C7: an opening quote with no later quote makes next() return
\* UnterminatedString carrying the offset of that quote, whatever precedes it
\* on the line; and UnterminatedString is returned for nothing else
C7_UnterminatedStringAtQuote ==
    /\ (Cardinality(Quotes) % 2 = 1 /\ lexer.byte >= LastQuote)
        => \E i \in 1..Len(emitted) :
                emitted[i] = ErrItem("UnterminatedString", LastQuote - 1)
    /\ \A i \in 1..Len(emitted) :
            emitted[i].err = "UnterminatedString"
                => /\ Cardinality(Quotes) % 2 = 1
                   /\ emitted[i].at = LastQuote - 1

\* the error is returned for a quote that follows a token and a space
C7_Witness ==
    \E i \in 2..Len(emitted) :
        /\ emitted[i].err = "UnterminatedString"
        /\ emitted[i].at >= 2
        /\ src[emitted[i].at] = " "
        /\ emitted[i - 1].k = "tok"

----------------------------------------------------------------------------
(* Claims about parse_expr, checked under SpecExpr                         *)

OpAt(i) == as_operator(stream[2 * i].tok)

NumOps == Len(stream) \div 2

RECURSIVE RightNested(_)
RightNested(i) ==
    IF i = Len(stream) THEN LitIdent(stream[i].tok)
    ELSE AstBinExpr(LitIdent(stream[i].tok), as_operator(stream[i + 1].tok),
                    RightNested(i + 2))

OnePrecedence == \A i \in 1..NumOps : precedence(OpAt(i)) = precedence(OpAt(1))

\* C2: a chain x0 op1 x1 ... opn xn of operators of one precedence level
\* parses, at Precedence::Lowest, to the fully right-nested tree
\* x0 op1 (x1 op2 (... opn xn)), every token of the chain consumed
C2_RightNested ==
    (phase = "done" /\ OnePrecedence) => result = Ok(RightNested(1), Len(stream))

\* a chain of three operators of one level that are not all the same
C2_Witness ==
    /\ phase = "done"
    /\ OnePrecedence
    /\ NumOps = 3
    /\ OpAt(1) # OpAt(2)
    /\ result.st = "ok"

X(i) == LitIdent(stream[2 * i + 1].tok)

\* C3: in x op1 y op2 z with operators of differing precedence the higher
\* one binds tighter: ((x op1 y) op2 z) when prec(op1) > prec(op2), and
\* (x op1 (y op2 z)) when prec(op1) < prec(op2)
C3_HigherBindsTighter ==
    (phase = "done" /\ NumOps = 2) =>
        /\ precedence(OpAt(1)) > precedence(OpAt(2))
            => result.val = AstBinExpr(AstBinExpr(X(0), OpAt(1), X(1)), OpAt(2), X(2))
        /\ precedence(OpAt(1)) < precedence(OpAt(2))
            => result.val = AstBinExpr(X(0), OpAt(1), AstBinExpr(X(1), OpAt(2), X(2)))

\* x0 * x1 + x2 has been parsed
C3_Witness ==
    /\ phase = "done"
    /\ NumOps = 2
    /\ OpAt(1) = "Mul"
    /\ OpAt(2) = "Add"
    /\ result.st = "ok"
    /\ result.val.l.node = "Bin"

----------------------------------------------------------------------------
(* Claims about parse, checked under SpecParse                             *)

Parsed == phase = "done"

\* an expression-statement that no semicolon ended
BareExpr(s) == s.stmt = "Expr" /\ s.has_semi = FALSE

\* the statement r read at some position is an expression-statement without
\* a semicolon and, past any Newlines, a token that starts a statement
\* follows it at q
TailThenStmt(r, q) ==
    /\ r.st = "ok"
    /\ BareExpr(r.val)
    /\ q = skip_newlines(stream, r.pos)
    /\ peek(stream, q).k = "tok"
    /\ peek(stream, q).tok.t \notin {"Indent", "Dedent"}

\* the statements of the top-level block from p on reach such a statement,
\* every statement before it well-formed and not a bare expression: the
\* position of the token that follows it, or -1
RECURSIVE FirstTail(_)
FirstTail(p) ==
    LET q == skip_newlines(stream, p)
        r == parse_stmt(stream, q, 0)
    IN  IF peek(stream, q).k # "tok" \/ peek(stream, q).tok.t \in {"Indent", "Dedent"}
            \/ r.st # "ok"
        THEN -1
        ELSE IF BareExpr(r.val)
        THEN (IF TailThenStmt(r, skip_newlines(stream, r.pos))
              THEN skip_newlines(stream, r.pos) ELSE -1)
        ELSE FirstTail(r.pos)

UnexpectedStmtAt(q) ==
    Err(ParseErr("UnexpectedStmt", peek(stream, q).at, src_len(peek(stream, q).tok)), q)

\* C4: a block in which an expression-statement without a semicolon is
\* followed by another statement fails with UnexpectedStmt, located at the
\* first token of the statement that follows: for a block read from any
\* position of the stream, and for the program as a whole
C4_TailMustBeLast ==
    Parsed =>
        /\ \A p \in 0..Len(stream) :
                LET r == parse_stmt(stream, p, 0)
                    q == skip_newlines(stream, r.pos)
                IN  TailThenStmt(r, q) => parse_block(stream, p, 0) = UnexpectedStmtAt(q)
        /\ LET q == FirstTail(0) IN q >= 0 => result = UnexpectedStmtAt(q)

\* "a;\nb\nc;\n": the error is at offset 5, the token c, of length 1
C4_Witness ==
    /\ phase = "done"
    /\ src = <<"a", ";", "\n", "b", "\n", "g", " ", "=", " ", "h", "(", "k",
               ",", " ", "m", ")", ";", "\n">>
    /\ result.st = "err"
    /\ result.err = ParseErr("UnexpectedStmt", 5, 1)

RECURSIVE FinalBlock(_)
FinalBlock(c) ==
    IF c.else_block.node = "Nil" THEN c.if_block
    ELSE IF c.else_block.node = "Block" THEN c.else_block
    ELSE FinalBlock(c.else_block)

RECURSIVE CondSemiInBlock(_), CondSemiInStmt(_), CondSemiInExpr(_)
CondSemiInBlock(b) == \A i \in 1..Len(b.stmts) : CondSemiInStmt(b.stmts[i])

CondSemiInStmt(s) ==
    CASE s.stmt = "Expr" ->
            /\ s.expr.node = "Cond" => s.has_semi = FinalBlock(s.expr).has_semi
            /\ CondSemiInExpr(s.expr)
      [] s.stmt = "Return" -> CondSemiInExpr(s.expr)
      [] s.stmt = "Assignment" -> CondSemiInExpr(s.assigned)
      [] s.stmt = "FnDef" -> CondSemiInBlock(s.body)
      [] s.stmt = "StructDef" ->
            \A i \in 1..Len(s.methods) : CondSemiInStmt(s.methods[i])

CondSemiInExpr(e) ==
    CASE e.node = "Cond" ->
            /\ CondSemiInExpr(e.condition)
            /\ CondSemiInBlock(e.if_block)
            /\ e.else_block.node = "Block" => CondSemiInBlock(e.else_block)
            /\ e.else_block.node = "Cond" => CondSemiInExpr(e.else_block)
      [] e.node = "Bin" -> CondSemiInExpr(e.l) /\ CondSemiInExpr(e.r)
      [] e.node = "Call" ->
            /\ CondSemiInExpr(e.called_expr)
            /\ \A i \in 1..Len(e.args) : CondSemiInExpr(e.args[i].expr)
      [] e.node = "Attr" -> CondSemiInExpr(e.expr)
      [] OTHER -> TRUE

\* "if x == 90:\n    y\n"
IfWithoutElse ==
    <<"i", "f", " ", "x", " ", "=", "=", " ", "9", "0", ":", "\n",
      " ", " ", " ", " ", "y", "\n">>

\* C6: the has_semi of an expression-statement whose expression is a
\* conditional is the has_semi of the conditional's final block (the last
\* else block if there is one, the if block otherwise), whether or not a
\* ';' token follows the conditional; "if x == 90:\n    y\n" parses to a
\* conditional without else_block whose block is the bare expression y,
\* with has_semi false
C6_CondSemiFromFinalBlock ==
    /\ (Parsed /\ result.st = "ok") => CondSemiInBlock(result.val)
    /\ (Parsed /\ src = IfWithoutElse) =>
            /\ result.st = "ok"
            /\ Len(result.val.stmts) = 1
            /\ result.val.stmts[1].stmt = "Expr"
            /\ result.val.stmts[1].has_semi = FALSE
            /\ result.val.stmts[1].expr.node = "Cond"
            /\ result.val.stmts[1].expr.else_block = Nil
            /\ result.val.stmts[1].expr.if_block.stmts
                    = <<StmtExpr(LitIdent(Ident(<<"y">>)), FALSE)>>

\* an if without else whose block ends in a bare expression, a ';' after it
C6_Witness ==
    /\ phase = "done"
    /\ result.st = "ok"
    /\ Len(result.val.stmts) = 1
    /\ result.val.stmts[1].stmt = "Expr"
    /\ result.val.stmts[1].expr.node = "Cond"
    /\ result.val.stmts[1].expr.else_block.node = "Nil"
    /\ ~result.val.stmts[1].has_semi
    /\ stream[result.pos - 1].k = "tok"
    /\ stream[result.pos - 1].tok.t = "Semicolon"

\* C8: an AST that parse produced renders to a text that lexes and parses
\* to an AST structurally equal to it
C8_RoundTrip ==
    (phase = "done" /\ result.st = "ok") =>
        /\ result2.st = "ok"
        /\ result2.val = result.val

\* the item the parser stopped at: the last one consumed when it returned an
\* error, the next one to read when it returned an AST or aborted
StoppedAt ==
    IF result.st = "err"
    THEN (IF result.pos >= 1 THEN stream[result.pos] ELSE NoneItem)
    ELSE peek(stream, result.pos)

\* C9: when the item the parser needs next is a lexer error, parse returns
\* ParseErr::LexErr wrapping that error unchanged: it neither aborts nor
\* returns an AST that stops in front of the error
C9_LexErrSurfaces ==
    (Parsed /\ StoppedAt.k = "err") =>
        /\ result.st = "err"
        /\ result.err = LexErr(StoppedAt)

\* C10: parse returns the error of the first rule that fails, with no
\* partial AST and no token consumed past the failing one: the error names
\* the last item consumed (the item peeked, for UnexpectedStmt; the end of
\* the stream, for UnexpectedEnd)
C10_FirstErrorStops ==
    (Parsed /\ result.st = "err") =>
        /\ result.val = Nil
        /\ CASE result.err.e = "UnexpectedEnd" -> result.pos = Len(stream)
             [] result.err.e = "LexErr" ->
                    /\ result.pos >= 1
                    /\ stream[result.pos].k = "err"
                    /\ result.err = LexErr(stream[result.pos])
             [] result.err.e = "UnexpectedStmt" ->
                    /\ peek(stream, result.pos).k = "tok"
                    /\ result.err.ix = peek(stream, result.pos).at
                    /\ result.err.len = src_len(peek(stream, result.pos).tok)
             [] OTHER ->
                    /\ result.pos >= 1
                    /\ stream[result.pos].k = "tok"
                    /\ result.err.ix = stream[result.pos].at
                    /\ result.err.len = src_len(stream[result.pos].tok)

\* an ExpectedToken error with items of the stream left unread
C10_Witness ==
    /\ phase = "done"
    /\ result.st = "err"
    /\ result.err.e = "ExpectedToken"
    /\ result.pos < Len(stream)

----------------------------------------------------------------------------
(* Claims about indentation, checked under SpecIndent                      *)

\* the item the call of next() taken in this step returned
Returned == emitted'[Len(emitted')]

\* just after a Newline, the next character neither a space nor a newline
AtLineToken ==
    /\ lexer.just_after_newline
    /\ lexer.rest # <<>>
    /\ Head(lexer.rest) \notin {" ", "\n"}

\* C11: just after a Newline, at indent_level n > 0 and in front of a
\* character that is neither a space nor a newline, a call of next() returns
\* one Dedent at the current offset, takes one from indent_level and
\* consumes nothing, so n calls in a row do; at level 0 the call scans the
\* token that starts at that same character
C11_ForcedDedents ==
    [][ /\ (AtLineToken /\ lexer.indent_level > 0) =>
            /\ Returned = OkItem(lexer.byte, Tok("Dedent"))
            /\ lexer' = [lexer EXCEPT !.indent_level = @ - 1]
        /\ (AtLineToken /\ lexer.indent_level = 0) =>
            /\ Returned.k = "tok"
            /\ Returned.at = lexer.byte
            /\ Returned.tok.t \notin {"Dedent", "Indent", "Newline"}
            /\ lexer'.byte > lexer.byte ]_vars

\* two Dedents and then an identifier, all three at one offset
C11_Witness ==
    \E i \in 1..(Len(emitted) - 2) :
        /\ emitted[i] = OkItem(emitted[i].at, Tok("Dedent"))
        /\ emitted[i + 1] = emitted[i]
        /\ emitted[i + 2] = OkItem(emitted[i].at, Ident(<<"a">>))
        /\ lexer.indent_level = 0

\* Indent tokens minus Dedent tokens among the first i items
Balance(i) ==
    Cardinality({ k \in 1..i : emitted[k] = OkItem(emitted[k].at, Tok("Indent")) })
        - Cardinality({ k \in 1..i : emitted[k] = OkItem(emitted[k].at, Tok("Dedent")) })

\* the length of the run of spaces that starts at offset s of the source
RunAt(s) == FindNotIn(Drop(src, s), {" "})

Structural == {"Indent", "Dedent", "Newline"}

DedentsBetween(i, j) ==
    Cardinality({ k \in (i + 1)..(j - 1) : emitted[k] = OkItem(emitted[k].at, Tok("Dedent")) })

\* C12: when the line after a Newline has found = spaces/4 units with
\* 0 < found < current level, exactly level - found Dedent tokens come
\* between that Newline and the first non-structural token of the line,
\* also when level - found is 2 or more
C12_DedentPerMissingUnit ==
    \A i \in 1..Len(emitted) : \A j \in (i + 1)..Len(emitted) :
        ( /\ emitted[i] = OkItem(emitted[i].at, Tok("Newline"))
          /\ RunAt(emitted[i].at + 1) % 4 = 0
          /\ 0 < RunAt(emitted[i].at + 1) \div 4
          /\ RunAt(emitted[i].at + 1) \div 4 < Balance(i)
          /\ emitted[j].k = "tok"
          /\ emitted[j].tok.t \notin Structural
          /\ emitted[j].at = emitted[i].at + 1 + RunAt(emitted[i].at + 1) )
        => DedentsBetween(i, j) = Balance(i) - RunAt(emitted[i].at + 1) \div 4

\* the offsets at which a line starts: 0, and the one after each Newline token
LineStarts ==
    {0} \cup { emitted[i].at + 1 : i \in { k \in 1..Len(emitted) :
                                            emitted[k] = OkItem(emitted[k].at, Tok("Newline")) } }

\* C13: on entering any line, after a Newline token or at the start of
\* input, a leading run of spaces whose length is not a multiple of 4 makes
\* lexing fail, and no token of that line is emitted
C13_BadRunFails ==
    \A s \in LineStarts :
        RunAt(s) % 4 # 0 =>
            /\ \A k \in 1..Len(emitted) : emitted[k].k = "tok" => emitted[k].at < s
            /\ lexer.byte > s => emitted[Len(emitted)].k \in {"panic", "err"}

\* just after a Newline, in front of a run of spaces
AtLineSpaces ==
    /\ lexer.just_after_newline
    /\ lexer.rest # <<>>
    /\ Head(lexer.rest) = " "
    /\ FindNotIn(lexer.rest, {" "}) % 4 = 0

\* C14: a line after a Newline with found = level + 1 indent units makes
\* next() return exactly one Indent and add one to indent_level; with
\* found >= level + 2 no Indent is returned and lexing fails
C14_OneLevelPerLine ==
    [][ /\ (AtLineSpaces /\ FindNotIn(lexer.rest, {" "}) \div 4 = lexer.indent_level + 1) =>
            /\ Returned = OkItem(lexer.byte, Tok("Indent"))
            /\ lexer'.indent_level = lexer.indent_level + 1
            /\ lexer'.byte = lexer.byte + 4
        /\ (AtLineSpaces /\ FindNotIn(lexer.rest, {" "}) \div 4 >= lexer.indent_level + 2) =>
            /\ Returned.k \in {"panic", "err"}
            /\ lexer'.indent_level = lexer.indent_level ]_vars

\* one Indent, then a line of three units at level 1 has stopped the lexer
C14_Witness ==
    /\ Len(emitted) >= 4
    /\ emitted[Len(emitted)].k = "panic"
    /\ emitted[Len(emitted) - 1] = OkItem(emitted[Len(emitted) - 1].at, Tok("Newline"))
    /\ emitted[2] = OkItem(1, Tok("Indent"))
    /\ lexer.indent_level = 1
    /\ RunAt(emitted[Len(emitted) - 1].at + 1) = 12

----------------------------------------------------------------------------
(* Claims about tokens, checked under SpecTokens                           *)

\* the input a call of next() scans once it has skipped spaces
Scanned == Drop(lexer.rest, SkippedSpaces(lexer))

\* the maximal run of digits and underscores at the head of s
NumericRun(s) == Take(s, FindNotIn(s, Numeric \cup {"_"}))

\* the decimal value of the digits s, continued from acc, is above 2^31 - 1
RECURSIVE AboveI32Max(_, _)
AboveI32Max(s, acc) ==
    IF s = <<>> THEN FALSE
    ELSE IF acc > (I32Max - DigitValue(Head(s))) \div 10 THEN TRUE
    ELSE AboveI32Max(Tail(s), acc * 10 + DigitValue(Head(s)))

NotAnI32(run) ==
    \/ \E i \in 1..Len(run) : run[i] = "_"
    \/ AboveI32Max(run, 0)

\* C15: a maximal run of digits and underscores that is not a 32-bit signed
\* integer (an underscore in it, or a value above 2^31 - 1) makes next()
\* return a lex error; the lexer neither aborts nor returns an IntLiteral
C15_BadNumberIsLexErr ==
    [][ ( /\ Scanned # <<>>
          /\ Head(Scanned) \in Numeric
          /\ ~needs_dedent(lexer, Head(lexer.rest))
          /\ NotAnI32(NumericRun(Scanned)) )
        => Returned.k = "err" ]_vars

\* C16: a lex error ends the token stream: after next() has returned a lex
\* error every later call returns end of input
C16_LexErrEndsStream ==
    \A i \in 1..Len(emitted) : \A j \in (i + 1)..Len(emitted) :
        emitted[i].k = "err" => emitted[j].k = "none"

\* the characters a token of kind t can start with
StartChars(t) ==
    CASE t = "Newline" -> {"\n"}
      [] t = "LParen" -> {"("}
      [] t = "RParen" -> {")"}
      [] t = "Colon" -> {":"}
      [] t = "Semicolon" -> {";"}
      [] t = "Comma" -> {","}
      [] t \in {"Sub", "SubEq", "Arrow"} -> {"-"}
      [] t \in {"Add", "AddEq"} -> {"+"}
      [] t \in {"Mul", "MulEq"} -> {"*"}
      [] t \in {"Div", "DivEq"} -> {"/"}
      [] t \in {"Bang", "BangEq"} -> {"!"}
      [] t \in {"Eq", "DoubleEq"} -> {"="}
      [] t \in {"Indent", "Dedent"} -> {" "}
      [] t = "StrLiteral" -> {"\""}
      [] t = "IntLiteral" -> Numeric
      [] OTHER -> Alphabetic

\* a Dedent recorded in front of a character that is not a space
ForcedDedentItem(item) ==
    /\ item = OkItem(item.at, Tok("Dedent"))
    /\ src[item.at + 1] # " "

\* C19: the byte ranges of consecutive tokens never overlap: the offset of a
\* token is that of the first character of its lexeme, it is not below the
\* offset the lexer had reached before the call nor below the offset of the
\* token before it, and two tokens share an offset only when the earlier one
\* is a forced Dedent, the one token that consumes nothing
C19_NoOverlap ==
    [][ Returned.k = "tok" =>
          /\ lexer.byte <= Returned.at
          /\ Returned.at <= lexer'.byte
          /\ Returned.at = lexer'.byte => ForcedDedentItem(Returned) /\ lexer' .byte = lexer.byte
          /\ ForcedDedentItem(Returned) \/ src[Returned.at + 1] \in StartChars(Returned.tok.t)
          /\ (emitted # <<>> /\ emitted[Len(emitted)].k = "tok") =>
                /\ Returned.at >= emitted[Len(emitted)].at
                /\ Returned.at = emitted[Len(emitted)].at =>
                        ForcedDedentItem(emitted[Len(emitted)]) ]_vars

\* a forced Dedent and a string literal of three bytes at one offset, then
\* an identifier right behind the literal
C19_Witness ==
    /\ Len(emitted) >= 6
    /\ emitted[2] = OkItem(1, Tok("Indent"))
    /\ emitted[4] = OkItem(6, Tok("Dedent"))
    /\ emitted[5] = OkItem(6, StrLiteral(<<"b">>))
    /\ emitted[6] = OkItem(9, Ident(<<"a">>))

----------------------------------------------------------------------------
(* Claims about reported errors and annotations, checked under SpecReport  *)

\* the digits at the end of s
RECURSIVE TrailingDigits(_)
TrailingDigits(s) ==
    IF s = <<>> \/ s[Len(s)] \notin Numeric THEN <<>>
    ELSE TrailingDigits(Take(s, Len(s) - 1)) \o <<s[Len(s)]>>

\* the header of a rendered error up to the offset, "... line_no:ix"
HeaderOf(out) == Take(out, FindIn(out, {RESET}) - 1)

\* the line number in a rendered error: the digits in front of ":ix"
RenderedLineNo(out) ==
    TrailingDigits(Take(HeaderOf(out),
                        Len(HeaderOf(out)) - Len(TrailingDigits(HeaderOf(out))) - 1))

NewlinesBefore(ix) == Cardinality({ i \in 1..ix : src[i] = "\n" })

Positioned == reported.st = "err" /\ result.err.e # "UnexpectedEnd"

\* C17: for a positioned parse or lex error at byte offset ix the reporter
\* renders a 1-based line number, 1 plus the number of '\n' characters of
\* the source before ix
C17_LineNumberOneBased ==
    Positioned =>
        RenderedLineNo(reported.out) = usize_to_string(1 + NewlinesBefore(result.err.ix))

\* the type annotations of an AST
RECURSIVE AnnotsInBlock(_), AnnotsInStmt(_), AnnotsInExpr(_)
AnnotsInBlock(b) == UNION { AnnotsInStmt(b.stmts[i]) : i \in 1..Len(b.stmts) }

AnnotsInStmt(s) ==
    CASE s.stmt = "Expr" -> AnnotsInExpr(s.expr)
      [] s.stmt = "Return" -> AnnotsInExpr(s.expr)
      [] s.stmt = "Assignment" -> AnnotsInExpr(s.target) \cup AnnotsInExpr(s.assigned)
      [] s.stmt = "FnDef" ->
            { s.args[i].type_annotation : i \in 1..Len(s.args) }
                \cup {s.return_type} \cup AnnotsInBlock(s.body)
      [] s.stmt = "StructDef" ->
            { s.fields[i].type_annotation : i \in 1..Len(s.fields) }
                \cup UNION { AnnotsInStmt(s.methods[i]) : i \in 1..Len(s.methods) }

AnnotsInExpr(e) ==
    CASE e.node = "Lit" -> IF e.lit = "TypedIdent" THEN {e.type_annotation} ELSE {}
      [] e.node = "Bin" -> AnnotsInExpr(e.l) \cup AnnotsInExpr(e.r)
      [] e.node = "Cond" ->
            AnnotsInExpr(e.condition) \cup AnnotsInBlock(e.if_block)
                \cup (IF e.else_block.node = "Block" THEN AnnotsInBlock(e.else_block)
                      ELSE IF e.else_block.node = "Cond" THEN AnnotsInExpr(e.else_block)
                      ELSE {})
      [] e.node = "Call" ->
            AnnotsInExpr(e.called_expr)
                \cup UNION { AnnotsInExpr(e.args[i].expr) : i \in 1..Len(e.args) }
      [] e.node = "Attr" -> AnnotsInExpr(e.expr)
      [] OTHER -> {}

MutMut == <<"m","u","t"," ","m","u","t"," ">>

\* the source has an annotation written with two `mut` in a row
HasMutMut == \E i \in 1..(Len(src) - 7) : SubSeq(src, i, i + 7) = MutMut

ParseReturned == phase \in {"render", "done", "reported"}

\* C18: every type annotation of an AST the parser returns has at most one
\* Mut wrapper, Mut never wraps Mut; a source with an annotation written with
\* two `mut` in a row gives a parse error and no AST (the parser gives no
\* result at all only where the source has an unknown character)
C18_AtMostOneMut ==
    ParseReturned =>
        /\ result.st = "ok" =>
                \A ty \in AnnotsInBlock(result.val) : ty.ty = "Mut" => ty.inner.ty # "Mut"
        /\ HasMutMut =>
                /\ result.st # "ok"
                /\ result.st = "err" \/ \E i \in 1..Len(src) : src[i] = "$"

\* an AST with a Mut annotation and a plain one
C18_Witness ==
    /\ ParseReturned
    /\ result.st = "ok"
    /\ \E ty \in AnnotsInBlock(result.val) : ty.ty = "Mut"
    /\ \E ty \in AnnotsInBlock(result.val) : ty.ty = "Dynamic"

----------------------------------------------------------------------------
(* Claims about parentheses, checked under SpecParen                       *)

\* the tokens between the parentheses of the stream, and the stream with a
\* fresh identifier y in their place
InnerOf(S) == [i \in 1..(Len(S) - 6) |-> S[i + 3].tok]

Y == Ident(<<"y">>)

Flat(S) == Enumerate(<<S[1].tok, S[2].tok, Y, S[Len(S) - 1].tok, S[Len(S)].tok>>)

\* the tree t with the tree e2 in place of the identifier y
RECURSIVE Subst(_, _)
Subst(t, e2) ==
    IF t = LitIdent(Y) THEN e2
    ELSE IF t.node = "Bin" THEN AstBinExpr(Subst(t.l, e2), t.op, Subst(t.r, e2))
    ELSE t

\* the claimed tree, from the parse of the flat stream and that of E2
Expected(flat, e2) == Subst(flat.val, e2.val)

\* C20: a parenthesised expression is one operand: x op (E2) op' E3 parses
\* to the tree of x op y op' E3 with the tree of E2 in place of y, and the
\* operators after the closing parenthesis are not absorbed into E2
C20_ParenIsOneOperand ==
    phase = "done" =>
        /\ result.st = "ok"
        /\ result.val = Expected(parse_expr(Flat(stream), 0, Lowest, 0, ParseContext_new),
                                 parse_expr(Enumerate(InnerOf(stream)), 0, Lowest, 0,
                                            ParseContext_new))

----------------------------------------------------------------------------
(* Claims about the lexer's state, checked under SpecTokens and SpecIndent *)

\* the call of this step returned a Dedent and consumed nothing
ForcedStep == Returned = OkItem(lexer.byte, Tok("Dedent")) /\ lexer'.byte = lexer.byte

\* C25 as stated: after next() returns a Newline the flag is true, after it
\* returns any other token, Indent and every Dedent included, it is false
C25_FlagFollowsToken ==
    [][ Returned.k = "tok" =>
            (lexer'.just_after_newline <=> Returned.tok.t = "Newline") ]_vars

\* C25: after next() returns a Newline the flag is true; after a forced
\* Dedent, which consumes nothing, it is still true; after any other token,
\* Indent and the Dedent of a less indented line included, it is false
C25_FlagFollowsConsumedToken ==
    [][ Returned.k = "tok" =>
            (lexer'.just_after_newline <=> (Returned.tok.t = "Newline" \/ ForcedStep)) ]_vars

\* Newline, Indent, Newline, a forced Dedent with the flag still set
C25_Witness ==
    /\ Len(emitted) = 4
    /\ emitted[2] = OkItem(1, Tok("Indent"))
    /\ emitted[4] = OkItem(6, Tok("Dedent"))
    /\ lexer.byte = 6
    /\ lexer.just_after_newline

\* the input has ended for this call: nothing left, or only spaces to skip
InputEnded == Scanned = <<>> /\ (lexer.rest = <<>> \/ ~lexer.just_after_newline)

\* C27: when the input ends while indent_level > 0, next() returns end of
\* input and no Dedent, and indent_level stays as it is: the lexer does not
\* close open indent levels
C27_NoDedentAtEnd ==
    [][ (InputEnded /\ lexer.indent_level > 0) =>
            /\ Returned = NoneItem
            /\ lexer'.indent_level = lexer.indent_level ]_vars

\* the run has ended with more Indent than Dedent tokens
C27_Witness ==
    /\ emitted # <<>>
    /\ emitted[Len(emitted)] = NoneItem
    /\ Count("Indent") = 2
    /\ Count("Dedent") = 0
    /\ lexer.indent_level = 2

NumReturned(items) == Cardinality({ i \in 1..Len(items) : items[i].k \in {"tok", "err"} })

NumIndents(items) == Cardinality({ i \in 1..Len(items) : items[i] = OkItem(items[i].at, Tok("Indent")) })

\* C28: every call of next() that returns a token or an error consumes at
\* least one byte or takes one from indent_level, so the number of such
\* calls is at most len(src) plus the number of Indent tokens returned
C28_CallsMakeProgress ==
    [][ /\ Returned.k \in {"tok", "err"} =>
            \/ lexer'.byte > lexer.byte
            \/ lexer'.indent_level = lexer.indent_level - 1
        /\ NumReturned(emitted') <= Len(src) + NumIndents(emitted') ]_vars

\* a run to the end of input with a forced Dedent in it
C28_Witness ==
    /\ emitted # <<>>
    /\ emitted[Len(emitted)] = NoneItem
    /\ \E i \in 1..(Len(emitted) - 1) : ForcedDedentItem(emitted[i])
    /\ NumReturned(emitted) = Len(emitted) - 1

\* C30: in every state of the lexer, after an error and after end of input
\* too, byte + len(rest) = len(src) and rest is the suffix of src at byte
C30_RestIsSuffix ==
    /\ lexer.byte + Len(lexer.rest) = Len(src)
    /\ lexer.rest = Drop(src, lexer.byte)

\* an error, then a token of two bytes, then the end of input
C30_Witness ==
    /\ Len(emitted) = 3
    /\ emitted[1].k = "err"
    /\ emitted[2] = OkItem(1, Tok("Arrow"))
    /\ emitted[3] = NoneItem
    /\ lexer.byte = 3

Punctuation == {"(", ")", ":", ";", ",", "."}

PunctuationToken(c) ==
    CASE c = "(" -> Tok("LParen")
      [] c = ")" -> Tok("RParen")
      [] c = ":" -> Tok("Colon")
      [] c = ";" -> Tok("Semicolon")
      [] c = "," -> Tok("Comma")
      [] c = "." -> Tok("Dot")

\* C26: each punctuation character ( ) : ; , . is lexed to its token, with
\* the byte offset of the character, and an attribute access such as `a.a`
\* lexes to Ident, Dot, Ident
C26_PunctuationLexed ==
    [][ /\ ( /\ Scanned # <<>>
             /\ Head(Scanned) \in Punctuation
             /\ ~needs_dedent(lexer, Head(lexer.rest)) )
            => Returned = OkItem(lexer.byte + SkippedSpaces(lexer),
                                 PunctuationToken(Head(Scanned)))
        /\ (src = <<"a", ".", "a">> /\ Returned = NoneItem)
            => Kinds(emitted') = <<"Ident", "Dot", "Ident", "none">> ]_vars

----------------------------------------------------------------------------
(* Claims about calls, checked under SpecCall                              *)

\* the tree of the i-th argument, parentheses being transparent
ArgTree(shape, i) ==
    IF shape.ops = <<>> THEN LitIdent(ArgOperand(i, 0))
    ELSE AstBinExpr(LitIdent(ArgOperand(i, 0)), as_operator(shape.ops[1]),
                    LitIdent(ArgOperand(i, 1)))

CallTree(shapes) ==
    AstCallExpr(LitIdent(Ident(<<"f">>)),
                [i \in 1..Len(shapes) |-> CallArg(Nil, ArgTree(shapes[i], i))])

\* C21: in a call whose arguments contain balanced parenthesised
\* expressions the ')' taken as the end of the call is the one matching the
\* call's '(': every argument is parsed as an argument of that call and
\* every token is consumed, so f((a), b) is one call with two arguments
C21_CallClosesAtItsParen ==
    phase = "done" =>
        \A shapes \in ArgLists :
            stream = Enumerate(CallTokens(shapes)) =>
                result = Ok(CallTree(shapes), Len(stream))

----------------------------------------------------------------------------
(* Claims about conditionals, checked under SpecCond                       *)

\* the condition expressions of the conditionals of an AST, at any depth
RECURSIVE CondsInBlock(_), CondsInStmt(_), CondsInExpr(_)
CondsInBlock(b) == UNION { CondsInStmt(b.stmts[i]) : i \in 1..Len(b.stmts) }

CondsInStmt(s) ==
    CASE s.stmt = "Expr" -> CondsInExpr(s.expr)
      [] s.stmt = "Return" -> CondsInExpr(s.expr)
      [] s.stmt = "Assignment" -> CondsInExpr(s.target) \cup CondsInExpr(s.assigned)
      [] s.stmt = "FnDef" -> CondsInBlock(s.body)
      [] s.stmt = "StructDef" -> UNION { CondsInStmt(s.methods[i]) : i \in 1..Len(s.methods) }

CondsInExpr(e) ==
    CASE e.node = "Cond" ->
            {e.condition} \cup CondsInExpr(e.condition) \cup CondsInBlock(e.if_block)
                \cup (IF e.else_block.node = "Block" THEN CondsInBlock(e.else_block)
                      ELSE IF e.else_block.node = "Cond" THEN CondsInExpr(e.else_block)
                      ELSE {})
      [] e.node = "Bin" -> CondsInExpr(e.l) \cup CondsInExpr(e.r)
      [] e.node = "Call" ->
            CondsInExpr(e.called_expr)
                \cup UNION { CondsInExpr(e.args[i].expr) : i \in 1..Len(e.args) }
      [] e.node = "Attr" -> CondsInExpr(e.expr)
      [] OTHER -> {}

\* C22: annotation parsing is suppressed while a condition is parsed: no
\* identifier of a condition, at any depth, operands of binary operators and
\* call arguments included, is a TypedIdent in the AST
C22_NoAnnotationInCondition ==
    (ParseReturned /\ result.st = "ok") =>
        \A c \in CondsInBlock(result.val) : AnnotsInExpr(c) = {}

----------------------------------------------------------------------------
(* Claims about blocks, checked under SpecBlocks                           *)

\* the blocks of an AST, at any depth
RECURSIVE BlocksInBlock(_), BlocksInStmt(_), BlocksInExpr(_)
BlocksInBlock(b) == {b} \cup UNION { BlocksInStmt(b.stmts[i]) : i \in 1..Len(b.stmts) }

BlocksInStmt(s) ==
    CASE s.stmt = "Expr" -> BlocksInExpr(s.expr)
      [] s.stmt = "Return" -> BlocksInExpr(s.expr)
      [] s.stmt = "Assignment" -> BlocksInExpr(s.target) \cup BlocksInExpr(s.assigned)
      [] s.stmt = "FnDef" -> BlocksInBlock(s.body)
      [] s.stmt = "StructDef" -> UNION { BlocksInStmt(s.methods[i]) : i \in 1..Len(s.methods) }

BlocksInExpr(e) ==
    CASE e.node = "Cond" ->
            BlocksInExpr(e.condition) \cup BlocksInBlock(e.if_block)
                \cup (IF e.else_block.node = "Block" THEN BlocksInBlock(e.else_block)
                      ELSE IF e.else_block.node = "Cond" THEN BlocksInExpr(e.else_block)
                      ELSE {})
      [] e.node = "Bin" -> BlocksInExpr(e.l) \cup BlocksInExpr(e.r)
      [] e.node = "Call" ->
            BlocksInExpr(e.called_expr)
                \cup UNION { BlocksInExpr(e.args[i].expr) : i \in 1..Len(e.args) }
      [] e.node = "Attr" -> BlocksInExpr(e.expr)
      [] OTHER -> {}

\* an expression-statement with has_semi = false
OpenExprStmt(s) == s.stmt = "Expr" /\ s.has_semi = FALSE

EndsOpen(b) == Len(b.stmts) > 0 /\ OpenExprStmt(b.stmts[Len(b.stmts)])

\* C23: in every block of a returned AST, at any depth, no statement but the
\* last is an expression-statement without a semicolon, and the block's
\* has_semi is false exactly when its last statement is one (an empty block
\* has has_semi = true)
C23_OnlyLastStmtOpen ==
    (ParseReturned /\ result.st = "ok") =>
        \A b \in BlocksInBlock(result.val) :
            /\ \A i \in 1..(Len(b.stmts) - 1) : ~OpenExprStmt(b.stmts[i])
            /\ b.has_semi = ~EndsOpen(b)

\* a block of two statements that ends open, around a nested block that ends
\* open as well
C23_Witness ==
    /\ ParseReturned
    /\ result.st = "ok"
    /\ Len(result.val.stmts) = 2
    /\ ~result.val.has_semi
    /\ \E b \in BlocksInBlock(result.val) : b.indent = 1 /\ ~b.has_semi /\ EndsOpen(b)
    /\ \E b \in BlocksInBlock(result.val) : b.indent = 1 /\ b.has_semi /\ Len(b.stmts) > 0

IsToken(i, t) == stream[i].k = "tok" /\ stream[i].tok.t = t

\* the token at i stands on the line after a colon that ends its line
FollowsColon(i) ==
    \E j \in 1..(i - 1) : IsToken(j, "Colon") /\ \A k \in (j + 1)..(i - 1) : IsToken(k, "Newline")

\* the Indent tokens that no colon-terminated construct introduces
BareIndents == { i \in 1..Len(stream) : IsToken(i, "Indent") /\ ~FollowsColon(i) }

FirstBareIndent == CHOOSE i \in BareIndents : \A j \in BareIndents : i <= j

\* C24: when the token sequence holds an Indent that no colon introduces,
\* parse returns no AST, and once the parser has come to the first such token,
\* inside a nested block or not, it has failed with UnexpectedIndent at that
\* token's byte offset; UnexpectedIndent is returned for no other token
C24_BareIndentFails ==
    ParseReturned =>
        /\ BareIndents # {} =>
              /\ result.st # "ok"
              /\ result.pos >= FirstBareIndent =>
                    /\ result.st = "err"
                    /\ result.err.e = "UnexpectedIndent"
                    /\ result.err.ix = stream[FirstBareIndent].at
                    /\ result.pos = FirstBareIndent
        /\ (result.st = "err" /\ result.err.e = "UnexpectedIndent") => BareIndents # {}

\* a line indented by two units inside the body of a function definition: the
\* body's Indent follows the colon, the next one is bare
C24_Witness ==
    /\ ParseReturned
    /\ result.st = "err"
    /\ result.err.e = "UnexpectedIndent"
    /\ IsToken(1, "Def")
    /\ result.err.ix = 32
    /\ Cardinality(BareIndents) = 1
    /\ \E i \in 1..Len(stream) : IsToken(i, "Indent") /\ FollowsColon(i) /\ i < FirstBareIndent

\* the items of the token sequence are tokens and lexer errors
FiniteTokenSequence == \A i \in 1..Len(stream) : stream[i].k \in {"tok", "err"}

\* a rule that succeeded from position p has consumed at least one token
Advances(r, p) == r.st = "ok" => r.pos > p

\* C29: on every finite token sequence parse reaches a result, an AST or an
\* error, having consumed no more than the sequence holds, and a statement
\* parsed in one iteration of a block's loop consumes at least one token
C29_ParseReachesResult ==
    (ParseReturned /\ FiniteTokenSequence) =>
        /\ result.st \in {"ok", "err"}
        /\ result.pos <= Len(stream)
        /\ \A p \in 0..(Len(stream) - 1) : Advances(Rule("parse_stmt", <<stream, p, 0>>), p)

====
